---- MODULE Spec2Model ----
(***************************************************************************)
(* Funding-rate arbitrage engine: market-data aggregation                  *)
(* (MarketDataService), opportunity detection, risk validation             *)
(* (RiskManagementService), paired execution (TradeExecutionService) and   *)
(* the monitoring scheduler (FundingArbitrageAgent).                       *)
(*                                                                         *)
(* Decimal quantities are exact rationals [n, d] in lowest terms.  Time is *)
(* counted in units of one monitoring interval (60000 ms).                 *)
(***************************************************************************)
EXTENDS Integers, Sequences, FiniteSets, TLC

(* ------------------------------------------------------------------ *)
(* Bounds of the model                                                 *)
(* ------------------------------------------------------------------ *)
MaxTime == 2

\* monitor() invocations that may be in progress at once
MaxCycles == 2

\* timer ticks, start() calls
MaxTicks == 2

MaxStarts == 2
\* number of monitoring cycles started while the market offers opportunities
MaxTradingCycles == 1

(* ------------------------------------------------------------------ *)
(* Decimal arithmetic (decimal.js), as exact rationals                 *)
(* ------------------------------------------------------------------ *)
RECURSIVE GCD(_, _)
GCD(a, b) ==
    IF b = 0 THEN a ELSE GCD(b, a % b)

IntAbs(x) ==
    IF x < 0 THEN -x ELSE x

Dec(n, d) ==
    LET s == IF d < 0 THEN -1 ELSE 1
        g == GCD(IntAbs(n), IntAbs(d))
    IN  [n |-> (s * n) \div g, d |-> (s * d) \div g]

DecZero ==
    [n |-> 0, d |-> 1]

DecInt(i) ==
    [n |-> i, d |-> 1]

DecAdd(x, y) ==
    Dec(x.n * y.d + y.n * x.d, x.d * y.d)

DecMinus(x, y) ==
    Dec(x.n * y.d - y.n * x.d, x.d * y.d)

DecMul(x, y) ==
    Dec(x.n * y.n, x.d * y.d)

DecDiv(x, y) ==
    Dec(x.n * y.d, x.d * y.n)

DecAbs(x) ==
    [n |-> IntAbs(x.n), d |-> x.d]

DecNeg(x) ==
    [n |-> -x.n, d |-> x.d]

DecGt(x, y) ==
    x.n * y.d > y.n * x.d

DecLt(x, y) ==
    x.n * y.d < y.n * x.d

DecGte(x, y) ==
    x.n * y.d >= y.n * x.d

DecLte(x, y) ==
    x.n * y.d <= y.n * x.d

DecMin(x, y) ==
    IF DecLt(y, x) THEN y ELSE x

(* ------------------------------------------------------------------ *)
(* Configuration                                                       *)
(* ------------------------------------------------------------------ *)
exchanges ==
    <<"binance", "bybit", "okx">>

AllSymbols ==
    {"BTC-PERP", "ETH-PERP"}

SeqRange(s) ==
    {s[i] : i \in 1..Len(s)}

\* keys `${exchange}:${symbol}` of the two snapshot maps
AllKeys ==
    SeqRange(exchanges) \X AllSymbols

\* thresholds of the detector, in decimal
minFundingDiff ==
    Dec(2, 1000)

minProfitThreshold ==
    Dec(1, 1000)

\* maximum age difference (in monitoring intervals) for two snapshots to count as synced
StalenessThreshold == 1

\* values the exchanges may report
Rates ==
    {Dec(-2, 1000), Dec(0, 1), Dec(3, 1000)}

Prices ==
    {DecInt(999), DecInt(1001)}

(* ------------------------------------------------------------------ *)
(* State                                                               *)
(* ------------------------------------------------------------------ *)
VARIABLES
    symbols,        \* config.symbols
    now,            \* Date.now(), in monitoring intervals
    fundingRates,   \* MarketDataService.fundingRates : key -> FundingRateData
    marketPrices,   \* MarketDataService.marketPrices : key -> MarketPriceData
    lastUpdate,     \* MarketDataService.lastUpdate
    fetchPc,        \* position of the fetchMarketData call
    fetchPending,   \* updateExchangeData promises not yet settled
    fetched,        \* what the connectors returned in the current refresh
    opportunities,  \* result of the last findArbitrageOpportunities call
    metrics,        \* RiskManagementService.metrics
    positions,      \* TradeExecutionService.positions : key -> Position
    exchangePositions, \* the net position each exchange holds per (exchange, symbol)
    exec,           \* the executeArbitrageTrade call of each caller
    orphans,        \* executeTrade calls still in flight after their executeArbitrageTrade returned
    feed,           \* which reports the exchanges may return
    isRunning,      \* FundingArbitrageAgent.isRunning
    monitoringInterval, \* FundingArbitrageAgent.monitoringInterval (0 is null)
    timers,         \* interval timers that are scheduled
    startCalls,     \* number of start() calls made
    startNotifying, \* start() calls awaiting the start notification
    startRefreshing, \* start() calls awaiting the initial fetchMarketData
    stopNotifying,  \* stop() calls awaiting the stop notification
    stoppedSince,   \* a stop() has returned and start() was not called since
    cycles,         \* the monitor() invocations in progress
    cyclesStarted,  \* number of monitor() invocations so far
    tradingEnabled, \* config.tradingEnabled
    validated,      \* the last call made on the risk service directly
    lastStart,      \* what the last start() call did
    notify,         \* the NotificationService and the send call made on it directly
    transportResponds, \* the notification transport settles the requests it is sent
    screenerOpportunities, \* FundingRateScreener.opportunities
    screenerCycle,  \* the monitor() invocation of the screener-driven agent
    bootstrap       \* main(): the connectors built and what became of the agent

dataVars == <<symbols, now, fundingRates, marketPrices, lastUpdate, fetchPc, fetchPending, fetched, opportunities>>

execVars == <<metrics, positions, exchangePositions, exec, orphans>>

agentVars == <<feed, isRunning, monitoringInterval, timers, startCalls, startNotifying, startRefreshing,
               stopNotifying, stoppedSince, cycles, cyclesStarted, tradingEnabled, validated,
               lastStart, notify, transportResponds,
                  screenerOpportunities, screenerCycle, bootstrap>>

vars == <<symbols, now, fundingRates, marketPrices, lastUpdate, fetchPc, fetchPending, fetched, opportunities,
          metrics, positions, exchangePositions, exec, orphans,
          feed, isRunning, monitoringInterval, timers, startCalls, startNotifying, startRefreshing,
          stopNotifying, stoppedSince, cycles, cyclesStarted, tradingEnabled, validated,
          lastStart, notify, transportResponds,
             screenerOpportunities, screenerCycle, bootstrap>>

Callers ==
    1..MaxCycles

\* no validateTrade call made yet
NotValidated ==
    [called |-> FALSE]

IdleCycle ==
    [pc |-> "idle", queue |-> <<>>, toManage |-> <<>>, error |-> FALSE,
     rejected |-> FALSE,                \* the promise of this invocation was rejected
     systemErrors |-> 0,                \* system_error notifications sent by this invocation
     order |-> <<>>,                    \* the opportunities of this invocation as monitor() iterates them
     attempted |-> 0,                   \* executeArbitrage calls made in this invocation
     metricsUpdated |-> FALSE,          \* updateMetrics was called in this invocation
     oppThrew |-> FALSE,                \* a leg of the opportunity just executed threw
     oppErrors |-> 0,                   \* error notifications sent for the opportunity just executed
     closeCalls |-> <<>>,               \* the positions closePosition was called for in this invocation
     closeOutcome |-> "none",           \* how the connector's closePosition call just made settled
     closeNotification |-> "none"]      \* what closePosition sent after it

\* a NotificationService with both channels configured, no send call made
IdleNotification ==
    [owner |-> "agent", configured |-> "absent",
     variant |-> "channels", enabled |-> TRUE, telegram |-> TRUE, discord |-> TRUE,
     pc |-> "idle", type |-> "none", posts |-> <<>>, failures |-> 0, raised |-> FALSE, warned |-> FALSE]

\* main() not run
NotBooted ==
    [pc |-> "idle",
     entries |-> <<>>,      \* Object.entries(defaultConfig.exchanges)
     calls |-> <<>>,        \* the createConnector calls made, with the configuration passed
     connectors |-> <<>>,   \* the connectors map
     raised |-> FALSE,      \* createConnector threw
     agent |-> "none"]

InitIdleBootstrap ==
    bootstrap = NotBooted

\* no monitor() of the screener-driven agent in progress
IdleScreenerCycle ==
    [pc |-> "idle", considered |-> <<>>, queue |-> <<>>, executed |-> <<>>]

InitIdleScreener ==
    /\ screenerOpportunities = <<>>
    /\ screenerCycle = IdleScreenerCycle

\* the agent as constructed: stopped, no timer
InitIdleAgent ==
    /\ isRunning = FALSE
    /\ monitoringInterval = 0
    /\ timers = {}
    /\ startCalls = 0
    /\ startNotifying = 0
    /\ startRefreshing = 0
    /\ stopNotifying = 0
    /\ stoppedSince = FALSE
    /\ cycles = [c \in Callers |-> IdleCycle]
    /\ cyclesStarted = 0
    /\ tradingEnabled = TRUE
    /\ validated = NotValidated
    /\ lastStart = "none"

NoFunding ==
    [present |-> FALSE, fundingRate |-> DecZero, timestamp |-> 0]

NoPrice ==
    [present |-> FALSE, price |-> DecZero, timestamp |-> 0]

NotFetched ==
    [settled |-> FALSE, ok |-> FALSE, rate |-> DecZero, price |-> DecZero,
     fetches |-> 0]     \* times fetchFundingRate and fetchMarketData were called in this refresh

\* keys of the configured symbols
Keys ==
    SeqRange(exchanges) \X SeqRange(symbols)

\* what one pair's two connector calls return: each may fail
FetchOutcomes ==
    {[fundingOk |-> TRUE, priceOk |-> TRUE, rate |-> r, price |-> p] : r \in Rates, p \in Prices}
    \cup {[fundingOk |-> f, priceOk |-> q, rate |-> DecZero, price |-> DecZero] :
            f \in BOOLEAN, q \in {FALSE}}
    \cup {[fundingOk |-> FALSE, priceOk |-> TRUE, rate |-> DecZero, price |-> DecZero]}

\* a steady market: every fetch succeeds with the same report per exchange
SteadyReport(k) ==
    [fundingOk |-> TRUE, priceOk |-> TRUE,
     rate |-> IF k[1] = "binance" THEN DecZero ELSE IF k[1] = "bybit" THEN Dec(3, 1000) ELSE Dec(-2, 1000),
     price |-> DecInt(1001)]

SteadyOutcomes(k) ==
    {SteadyReport(k)}

\* a flat market: the same funding rate everywhere, or a failed fetch
FlatOutcomes(k) ==
    {[fundingOk |-> TRUE, priceOk |-> TRUE, rate |-> DecZero, price |-> DecInt(1001)],
     [fundingOk |-> FALSE, priceOk |-> FALSE, rate |-> DecZero, price |-> DecZero]}

Feed(k) ==
    IF feed = "any" THEN FetchOutcomes
    ELSE IF feed = "steady" THEN SteadyOutcomes(k)
    ELSE FlatOutcomes(k)

(* ------------------------------------------------------------------ *)
(* MarketDataService                                                   *)
(* ------------------------------------------------------------------ *)
\* settlement of the promise returned by updateExchangeData: the catch swallows every failure
updateExchangeDataPromise_nocatch(out) ==
    IF out.fundingOk /\ out.priceOk THEN "fulfilled" ELSE "rejected"

updateExchangeDataPromise(out) ==
    "fulfilled"

\* fetchMarketData, up to the await: one updateExchangeData promise per (symbol, exchange)
fetchMarketDataCall ==
    /\ fetchPc \in {"idle", "detected", "raised"}
    /\ fetchPc' = "awaiting"
    /\ fetchPending' = Keys
    /\ fetched' = [k \in AllKeys |-> IF k \in Keys THEN [NotFetched EXCEPT !.fetches = 1] ELSE NotFetched]
    /\ opportunities' = <<>>
    /\ UNCHANGED <<symbols, now, fundingRates, marketPrices, lastUpdate>>
    /\ UNCHANGED execVars
    /\ UNCHANGED agentVars

\* the pairs still awaited once the calls of pair k have settled: a failure is logged, not retried
stillPending_retry(k, out) ==
    IF (out.fundingOk /\ out.priceOk) \/ fetched[k].fetches >= 2
       THEN fetchPending \ {k}
       ELSE fetchPending

stillPending(k, out) ==
    fetchPending \ {k}

\* the snapshot is written after Promise.all of the two fetches has fulfilled
storesSnapshot_either(out) ==
    out.fundingOk \/ out.priceOk

storesSnapshot(out) ==
    out.fundingOk /\ out.priceOk

\* updateExchangeData: both connector calls of one pair settle
updateExchangeData(k, out) ==
    /\ k \in fetchPending
    /\ fetchPending' = stillPending(k, out)
    /\ fetched' = [fetched EXCEPT ![k] =
            [settled |-> k \notin stillPending(k, out),
             ok |-> out.fundingOk /\ out.priceOk, rate |-> out.rate, price |-> out.price,
             fetches |-> IF k \in stillPending(k, out) THEN @.fetches + 1 ELSE @.fetches]]
    /\ IF storesSnapshot(out)
          THEN /\ fundingRates' = [fundingRates EXCEPT ![k] =
                        [present |-> TRUE, fundingRate |-> out.rate, timestamp |-> now]]
               /\ marketPrices' = [marketPrices EXCEPT ![k] =
                        [present |-> TRUE, price |-> out.price, timestamp |-> now]]
          ELSE UNCHANGED <<fundingRates, marketPrices>>
    /\ IF fetchPc = "awaiting" /\ updateExchangeDataPromise(out) = "rejected"
          THEN fetchPc' = "raised"
          ELSE UNCHANGED fetchPc
    /\ UNCHANGED <<symbols, now, lastUpdate, opportunities>>
    /\ UNCHANGED execVars
    /\ UNCHANGED agentVars

\* fetchMarketData after Promise.all fulfils
fetchMarketDataReturn ==
    /\ fetchPc = "awaiting"
    /\ fetchPending = {}
    /\ fetchPc' = "returned"
    /\ lastUpdate' = now
    /\ UNCHANGED <<symbols, now, fundingRates, marketPrices, fetchPending, fetched, opportunities>>
    /\ UNCHANGED execVars
    /\ UNCHANGED agentVars

\* exchange pairs (i, j), i < j, in the order of the nested loops
RECURSIVE exchangePairs(_, _)
exchangePairs(i, j) ==
    IF i > Len(exchanges) THEN <<>>
    ELSE IF j > Len(exchanges) THEN exchangePairs(i + 1, i + 2)
    ELSE <<(<<i, j>>)>> \o exchangePairs(i, j + 1)

\* direction of an opportunity
longExchangeOf_swapped(fundingDiff, exchange1, exchange2) ==
    IF DecLt(fundingDiff, DecZero) THEN exchange2 ELSE exchange1

longExchangeOf(fundingDiff, exchange1, exchange2) ==
    IF DecLt(fundingDiff, DecZero) THEN exchange1 ELSE exchange2

shortExchangeOf(fundingDiff, exchange1, exchange2) ==
    IF DecLt(fundingDiff, DecZero) THEN exchange2 ELSE exchange1

\* the emission test of the inner loop
emits_nonstrict(fundingDiff, expectedProfit, minFD, minPT) ==
    /\ DecGte(DecAbs(fundingDiff), minFD)
    /\ DecGte(expectedProfit, minPT)

emits(fundingDiff, expectedProfit, minFD, minPT) ==
    /\ DecGt(DecAbs(fundingDiff), minFD)
    /\ DecGt(expectedProfit, minPT)

\* body of the inner loop of findSymbolOpportunities: zero or one opportunity
pairOpportunities(rates, prices, symbol, exchange1, exchange2, minFD, minPT) ==
    LET key1 == <<exchange1, symbol>>
        key2 == <<exchange2, symbol>>
        fundingRate1 == rates[key1]
        fundingRate2 == rates[key2]
        price1 == prices[key1]
        price2 == prices[key2]
    IN  IF ~fundingRate1.present \/ ~fundingRate2.present \/ ~price1.present \/ ~price2.present
           THEN <<>>
           ELSE LET fundingDiff == DecMinus(fundingRate1.fundingRate, fundingRate2.fundingRate)
                    priceDiff == DecAbs(DecMinus(price1.price, price2.price))
                    avgPrice == DecDiv(DecAdd(price1.price, price2.price), DecInt(2))
                    priceDeviation == DecDiv(priceDiff, avgPrice)
                    expectedProfit == DecMinus(DecAbs(fundingDiff), priceDeviation)
                IN  IF emits(fundingDiff, expectedProfit, minFD, minPT)
                       THEN << [symbol |-> symbol,
                                longExchange |-> longExchangeOf(fundingDiff, exchange1, exchange2),
                                shortExchange |-> shortExchangeOf(fundingDiff, exchange1, exchange2),
                                fundingDiff |-> DecAbs(fundingDiff),
                                expectedProfit |-> expectedProfit,
                                timestamp |-> now] >>
                       ELSE <<>>

RECURSIVE concatPairs(_, _, _, _, _, _)
concatPairs(rates, prices, symbol, pairs, minFD, minPT) ==
    IF pairs = <<>> THEN <<>>
    ELSE pairOpportunities(rates, prices, symbol, exchanges[Head(pairs)[1]], exchanges[Head(pairs)[2]], minFD, minPT)
            \o concatPairs(rates, prices, symbol, Tail(pairs), minFD, minPT)

findSymbolOpportunities(rates, prices, symbol, minFD, minPT) ==
    concatPairs(rates, prices, symbol, exchangePairs(1, 2), minFD, minPT)

RECURSIVE findArbitrageOpportunities(_, _, _, _, _)
findArbitrageOpportunities(rates, prices, syms, minFD, minPT) ==
    IF syms = <<>> THEN <<>>
    ELSE findSymbolOpportunities(rates, prices, Head(syms), minFD, minPT)
            \o findArbitrageOpportunities(rates, prices, Tail(syms), minFD, minPT)

(* ------------------------------------------------------------------ *)
(* RiskManagementService                                               *)
(* ------------------------------------------------------------------ *)
\* the plugin configuration handed to the agent
config ==
    [basePositionSize |-> DecInt(1000),
     maxPositionSize |-> DecInt(1008),
     maxSizeMultiplier |-> DecInt(2),
     defaultLeverage |-> 2,
     initialBalance |-> DecInt(500),
     riskManagement |->
        [maxPositionSize |-> DecInt(1010),
         maxPositionsPerSymbol |-> 2,
         maxTotalPositions |-> 2,
         maxLeverage |-> 3,
         maxDrawdown |-> Dec(3, 100),
         stopLossPercentage |-> DecInt(1),
         takeProfitPercentage |-> DecInt(2)]]

\* the fields the RiskManagementService constructor derives from the configuration
risk ==
    [maxPositionSize |-> config.riskManagement.maxPositionSize,
     maxPositionsPerSymbol |-> config.riskManagement.maxPositionsPerSymbol,
     maxTotalPositions |-> config.riskManagement.maxTotalPositions,
     maxLeverage |-> config.riskManagement.maxLeverage,
     maxDrawdown |-> config.riskManagement.maxDrawdown,
     stopLossPercentage |-> DecDiv(config.riskManagement.stopLossPercentage, DecInt(100)),
     takeProfitPercentage |-> DecDiv(config.riskManagement.takeProfitPercentage, DecInt(100)),
     initialBalance |-> config.initialBalance]

\* positionsPerSymbol.get(symbol) || 0
getOrZero(map, k) ==
    IF k \in DOMAIN map THEN map[k] ELSE 0

InitialMetrics ==
    [totalPositions |-> 0,
     totalExposure |-> DecZero,
     maxDrawdown |-> DecZero,
     currentDrawdown |-> DecZero,
     positionsPerSymbol |-> [s \in {} |-> 0]]

calculatePotentialDrawdown(request) ==
    LET positionValue == DecMul(request.size, request.currentPrice)
        maxLoss == DecMul(DecMul(positionValue, DecInt(request.leverage)), risk.stopLossPercentage)
    IN  DecDiv(maxLoss, risk.initialBalance)

\* validateTrade with the per-symbol count compared by > instead of >=
rejectionReason_strictCount(request, m) ==
    IF DecGt(request.size, risk.maxPositionSize) THEN "size"
    ELSE IF request.leverage > risk.maxLeverage THEN "leverage"
    ELSE IF getOrZero(m.positionsPerSymbol, request.symbol) > risk.maxPositionsPerSymbol THEN "positionsPerSymbol"
    ELSE IF m.totalPositions > risk.maxTotalPositions THEN "totalPositions"
    ELSE IF DecGt(calculatePotentialDrawdown(request), risk.maxDrawdown) THEN "drawdown"
    ELSE "none"

\* validateTrade with the total-positions check made first
rejectionReason_totalFirst(request, m) ==
    IF m.totalPositions >= risk.maxTotalPositions THEN "totalPositions"
    ELSE IF DecGt(request.size, risk.maxPositionSize) THEN "size"
    ELSE IF request.leverage > risk.maxLeverage THEN "leverage"
    ELSE IF getOrZero(m.positionsPerSymbol, request.symbol) >= risk.maxPositionsPerSymbol THEN "positionsPerSymbol"
    ELSE IF DecGt(calculatePotentialDrawdown(request), risk.maxDrawdown) THEN "drawdown"
    ELSE "none"

\* the first failing check of validateTrade, "none" when the request passes
rejectionReason(request, m) ==
    IF DecGt(request.size, risk.maxPositionSize) THEN "size"
    ELSE IF request.leverage > risk.maxLeverage THEN "leverage"
    ELSE IF getOrZero(m.positionsPerSymbol, request.symbol) >= risk.maxPositionsPerSymbol THEN "positionsPerSymbol"
    ELSE IF m.totalPositions >= risk.maxTotalPositions THEN "totalPositions"
    ELSE IF DecGt(calculatePotentialDrawdown(request), risk.maxDrawdown) THEN "drawdown"
    ELSE "none"

validateTrade(request, m) ==
    rejectionReason(request, m) = "none"

RECURSIVE countSymbol(_, _)
countSymbol(ps, symbol) ==
    IF ps = <<>> THEN 0
    ELSE (IF Head(ps).symbol = symbol THEN 1 ELSE 0) + countSymbol(Tail(ps), symbol)

RECURSIVE sumExposure(_)
sumExposure(ps) ==
    IF ps = <<>> THEN DecZero
    ELSE DecAdd(DecMul(DecMul(Head(ps).size, Head(ps).entryPrice), DecInt(Head(ps).leverage)),
                sumExposure(Tail(ps)))

RECURSIVE calculateMaxDrawdown(_)
calculateMaxDrawdown(ps) ==
    IF ps = <<>> THEN DecZero
    ELSE LET drawdown == DecDiv(Head(ps).unrealizedPnl, risk.initialBalance)
             rest == calculateMaxDrawdown(Tail(ps))
         IN  IF DecLt(drawdown, rest) THEN drawdown ELSE rest

RECURSIVE sumPnl(_)
sumPnl(ps) ==
    IF ps = <<>> THEN DecZero
    ELSE DecAdd(Head(ps).unrealizedPnl, sumPnl(Tail(ps)))

calculateCurrentDrawdown(ps) ==
    DecDiv(sumPnl(ps), risk.initialBalance)

shouldTakeProfit(position) ==
    DecGte(DecDiv(position.unrealizedPnl, DecMul(position.size, position.entryPrice)),
           risk.takeProfitPercentage)

shouldStopLoss(position) ==
    DecLte(DecDiv(position.unrealizedPnl, DecMul(position.size, position.entryPrice)),
           DecNeg(risk.stopLossPercentage))

\* updateMetrics: the metrics recomputed from a list of positions
updateMetrics_incremental(ps) ==
    [totalPositions |-> metrics.totalPositions + Len(ps),
     totalExposure |-> DecAdd(metrics.totalExposure, sumExposure(ps)),
     maxDrawdown |-> calculateMaxDrawdown(ps),
     currentDrawdown |-> calculateCurrentDrawdown(ps),
     positionsPerSymbol |-> [s \in DOMAIN metrics.positionsPerSymbol \cup {ps[i].symbol : i \in 1..Len(ps)} |->
                                getOrZero(metrics.positionsPerSymbol, s) + countSymbol(ps, s)]]

updateMetrics(ps) ==
    [totalPositions |-> Len(ps),
     totalExposure |-> sumExposure(ps),
     maxDrawdown |-> calculateMaxDrawdown(ps),
     currentDrawdown |-> calculateCurrentDrawdown(ps),
     positionsPerSymbol |-> [s \in {ps[i].symbol : i \in 1..Len(ps)} |-> countSymbol(ps, s)]]

(* ------------------------------------------------------------------ *)
(* Exchange connectors                                                 *)
(* ------------------------------------------------------------------ *)
\* fill price an exchange reports for an order
EntryPrices ==
    {DecInt(1000)}

\* ExchangeConnector.executeTrade: the position returned for a filled request
executedPosition(request, price) ==
    [symbol |-> request.symbol,
     exchange |-> request.exchange,
     side |-> request.side,
     size |-> request.size,
     leverage |-> request.leverage,
     entryPrice |-> price,
     unrealizedPnl |-> DecZero]

\* the exchange's net position after it filled a request
applyOrder(ep, request) ==
    [ep EXCEPT ![<<request.exchange, request.symbol>>] =
        IF request.side = "long" THEN DecAdd(@, request.size) ELSE DecMinus(@, request.size)]

\* ExchangeConnector.getPosition: null when flat
hasPosition(ep, k) ==
    ep[k].n # 0

livePosition(ep, k, pnl) ==
    [symbol |-> k[2],
     exchange |-> k[1],
     side |-> IF ep[k].n > 0 THEN "long" ELSE "short",
     size |-> DecAbs(ep[k]),
     leverage |-> config.defaultLeverage,
     entryPrice |-> DecInt(1000),
     unrealizedPnl |-> pnl]

(* ------------------------------------------------------------------ *)
(* TradeExecutionService                                               *)
(* ------------------------------------------------------------------ *)
NoTrade ==
    [symbol |-> "", exchange |-> "", side |-> "", size |-> DecZero, leverage |-> 0,
     hasLimitPrice |-> FALSE, limitPrice |-> DecZero]

IdleExec ==
    [pc |-> "idle", longTrade |-> NoTrade, shortTrade |-> NoTrade,
     long |-> "none", short |-> "none", longPosition |-> NoTrade, shortPosition |-> NoTrade,
     result |-> "none", calls |-> 0, errorNotifications |-> 0, tradeNotifications |-> 0,
     before |-> <<>>]

\* the TradeValidation built from a TradeRequest
validationOf(trade) ==
    [symbol |-> trade.symbol,
     size |-> trade.size,
     leverage |-> trade.leverage,
     currentPrice |-> IF trade.hasLimitPrice THEN trade.limitPrice ELSE DecZero,
     unrealizedPnl |-> DecZero]

\* the pair is abandoned unless both legs pass
pairAbandoned_bothInvalid(longValid, shortValid) ==
    ~longValid /\ ~shortValid

pairAbandoned(longValid, shortValid) ==
    ~longValid \/ ~shortValid

connectorsFound(longTrade, shortTrade) ==
    /\ longTrade.exchange \in SeqRange(exchanges)
    /\ shortTrade.exchange \in SeqRange(exchanges)

\* a failed validation is logged as a warning and false is returned from inside the try block
validationFailed_throws(entered) ==
    [entered EXCEPT !.pc = "notifying", !.result = "false", !.errorNotifications = @ + 1]

validationFailed(entered) ==
    [entered EXCEPT !.pc = "returned", !.result = "false"]

\* executeArbitrageTrade up to its first await, or to its return when the pair is abandoned
executeArbitrageTradeCall(longTrade, shortTrade, m, tracked) ==
    LET longValid == validateTrade(validationOf(longTrade), m)
        shortValid == validateTrade(validationOf(shortTrade), m)
        entered == [IdleExec EXCEPT !.longTrade = longTrade, !.shortTrade = shortTrade, !.before = tracked]
    IN  IF pairAbandoned(longValid, shortValid)
           THEN validationFailed(entered)
        ELSE IF ~connectorsFound(longTrade, shortTrade)
           THEN [entered EXCEPT !.pc = "returned", !.result = "false"]
        ELSE [entered EXCEPT !.pc = "legs", !.long = "pending", !.short = "pending", !.calls = 2]

longKey(e) ==
    <<e.longTrade.exchange, e.longTrade.symbol, "long">>

shortKey(e) ==
    <<e.shortTrade.exchange, e.shortTrade.symbol, "short">>

\* Map.set
mapSet(map, k, v) ==
    (k :> v) @@ map

\* only the long leg recorded
storePositions_longOnly(tracked, e) ==
    mapSet(tracked, longKey(e), e.longPosition)

\* positions recorded once Promise.all has fulfilled
storePositions(tracked, e) ==
    mapSet(mapSet(tracked, longKey(e), e.longPosition), shortKey(e), e.shortPosition)

\* one leg's executeTrade fulfils; Promise.all fulfils with the second
legFulfils(c, leg, price) ==
    /\ exec[c].pc = "legs"
    /\ exec[c][leg] = "pending"
    /\ LET trade == IF leg = "long" THEN exec[c].longTrade ELSE exec[c].shortTrade
           other == IF leg = "long" THEN "short" ELSE "long"
           filled == [exec[c] EXCEPT ![leg] = "ok",
                                     ![IF leg = "long" THEN "longPosition" ELSE "shortPosition"] =
                                          executedPosition(trade, price)]
       IN  /\ exchangePositions' = applyOrder(exchangePositions, trade)
           /\ IF exec[c][other] = "ok"
                 THEN /\ positions' = storePositions(positions, filled)
                      /\ exec' = [exec EXCEPT ![c] =
                            [filled EXCEPT !.pc = "notifying", !.result = "true",
                                           !.tradeNotifications = @ + 1]]
                 ELSE /\ exec' = [exec EXCEPT ![c] = filled]
                      /\ UNCHANGED positions
    /\ UNCHANGED <<metrics, orphans>>

\* one leg's executeTrade throws: Promise.all rejects at once and the catch block runs
legThrows(c, leg) ==
    /\ exec[c].pc = "legs"
    /\ exec[c][leg] = "pending"
    /\ LET other == IF leg = "long" THEN "short" ELSE "long"
           otherTrade == IF leg = "long" THEN exec[c].shortTrade ELSE exec[c].longTrade
       IN  /\ exec' = [exec EXCEPT ![c] =
                 [@ EXCEPT ![leg] = "failed", !.pc = "notifying", !.result = "false",
                           !.errorNotifications = @ + 1]]
           /\ orphans' = IF exec[c][other] = "pending" THEN Append(orphans, otherTrade) ELSE orphans
    /\ UNCHANGED <<metrics, positions, exchangePositions>>

\* an executeTrade call that nobody awaits any more settles
orphanSettles(i, filled) ==
    /\ i \in 1..Len(orphans)
    /\ orphans' = [j \in 1..(Len(orphans) - 1) |-> IF j < i THEN orphans[j] ELSE orphans[j + 1]]
    /\ exchangePositions' = IF filled THEN applyOrder(exchangePositions, orphans[i]) ELSE exchangePositions
    /\ UNCHANGED <<metrics, positions, exec>>

\* the awaited notification settles and executeArbitrageTrade returns
executeArbitrageTradeReturn(c) ==
    /\ exec[c].pc = "notifying"
    /\ transportResponds
    /\ exec' = [exec EXCEPT ![c].pc = "returned"]
    /\ UNCHANGED <<metrics, positions, exchangePositions, orphans>>

(* ------------------------------------------------------------------ *)
(* executeArbitrageTrade called directly                               *)
(* ------------------------------------------------------------------ *)
RequestExchanges ==
    SeqRange(exchanges) \cup {"kraken"}

RequestSizes ==
    {DecInt(1000), DecInt(2000)}

RequestLeverages ==
    {2, 5}

LimitPrices ==
    {DecInt(1000)}

TradeRequests(side) ==
    {[symbol |-> s, exchange |-> e, side |-> side, size |-> z, leverage |-> l,
      hasLimitPrice |-> FALSE, limitPrice |-> DecZero] :
        s \in SeqRange(symbols), e \in RequestExchanges, z \in RequestSizes, l \in RequestLeverages}
    \cup
    {[symbol |-> s, exchange |-> e, side |-> side, size |-> DecInt(1000), leverage |-> 2,
      hasLimitPrice |-> TRUE, limitPrice |-> p] :
        s \in SeqRange(symbols), e \in RequestExchanges, p \in LimitPrices}

\* the positions getAllPositions reads from the exchanges, connector by connector
RECURSIVE positionsOf(_, _, _)
positionsOf(ep, keys, pnl) ==
    IF keys = <<>> THEN <<>>
    ELSE (IF hasPosition(ep, Head(keys)) THEN <<livePosition(ep, Head(keys), pnl[Head(keys)])>> ELSE <<>>)
            \o positionsOf(ep, Tail(keys), pnl)

RECURSIVE keysInOrder(_, _)
keysInOrder(i, j) ==
    IF i > Len(exchanges) THEN <<>>
    ELSE IF j > Len(symbols) THEN keysInOrder(i + 1, 1)
    ELSE <<(<<exchanges[i], symbols[j]>>)>> \o keysInOrder(i, j + 1)

getAllPositions(ep, pnl) ==
    positionsOf(ep, keysInOrder(1, 1), pnl)

NoPnl ==
    [k \in AllKeys |-> DecZero]

NoExchangePositions ==
    [k \in AllKeys |-> DecZero]

ExecCall ==
    /\ exec[1].pc = "idle"
    /\ \E longTrade \in TradeRequests("long"), shortTrade \in TradeRequests("short") :
           /\ longTrade.exchange # shortTrade.exchange
           /\ exec' = [exec EXCEPT ![1] = executeArbitrageTradeCall(longTrade, shortTrade, metrics, positions)]
    /\ UNCHANGED <<metrics, positions, exchangePositions, orphans>>
    /\ UNCHANGED dataVars
    /\ UNCHANGED agentVars

LegFulfils ==
    /\ \E leg \in {"long", "short"}, price \in EntryPrices : legFulfils(1, leg, price)
    /\ UNCHANGED dataVars
    /\ UNCHANGED agentVars

LegThrows ==
    /\ \E leg \in {"long", "short"} : legThrows(1, leg)
    /\ UNCHANGED dataVars
    /\ UNCHANGED agentVars

OrphanSettles ==
    /\ \E i \in 1..Len(orphans), filled \in BOOLEAN : orphanSettles(i, filled)
    /\ UNCHANGED dataVars
    /\ UNCHANGED agentVars

ExecReturn ==
    /\ executeArbitrageTradeReturn(1)
    /\ UNCHANGED dataVars
    /\ UNCHANGED agentVars

\* positions the exchanges may already hold when the call is made
HeldPositions ==
    {ep \in [AllKeys -> {DecZero, DecInt(1000), DecInt(-1000)}] :
        \A k \in AllKeys : k[2] \notin SeqRange(symbols) => ep[k] = DecZero}

InitIdleExecution ==
    /\ metrics = InitialMetrics
    /\ positions = <<>>
    /\ exchangePositions = NoExchangePositions
    /\ exec = [c \in Callers |-> IdleExec]
    /\ orphans = <<>>

InitExec ==
    /\ symbols = <<"BTC-PERP">>
    /\ now = 0
    /\ fundingRates = [k \in AllKeys |-> NoFunding]
    /\ marketPrices = [k \in AllKeys |-> NoPrice]
    /\ lastUpdate = 0
    /\ fetchPc = "idle"
    /\ fetchPending = {}
    /\ fetched = [k \in AllKeys |-> NotFetched]
    /\ opportunities = <<>>
    /\ exchangePositions \in HeldPositions
    /\ metrics \in {InitialMetrics, updateMetrics(getAllPositions(exchangePositions, NoPnl))}
    /\ positions = <<>>
    /\ exec = [c \in Callers |-> IdleExec]
    /\ orphans = <<>>
    /\ feed = "any"
    /\ InitIdleAgent
    /\ notify = IdleNotification
    /\ transportResponds \in BOOLEAN
    /\ InitIdleScreener
    /\ InitIdleBootstrap

NextExec ==
    \/ ExecCall
    \/ LegFulfils
    \/ LegThrows
    \/ OrphanSettles
    \/ ExecReturn

SpecExec ==
    InitExec /\ [][NextExec]_vars

\* the same calls when every pending executeTrade settles and every continuation
\* whose awaited promise has settled is run
SpecExecFair ==
    /\ InitExec
    /\ [][NextExec]_vars
    /\ WF_vars(LegFulfils \/ LegThrows)
    /\ WF_vars(ExecReturn)

(* ------------------------------------------------------------------ *)
(* RiskManagementService called directly                               *)
(* ------------------------------------------------------------------ *)
CandidateSizes ==
    {DecInt(1000), DecInt(2000)}

CandidateLeverages ==
    {1, 2, 5}

CandidatePrices ==
    {DecZero, DecInt(1), DecInt(2)}

\* the TradeValidation records handed to validateTrade
Candidates ==
    {[symbol |-> s, size |-> z, leverage |-> l, currentPrice |-> p, unrealizedPnl |-> DecZero] :
        s \in SeqRange(symbols), z \in CandidateSizes, l \in CandidateLeverages, p \in CandidatePrices}

\* positions the exchanges may report to updateMetrics
ReportedSizes ==
    {DecZero, DecInt(1000), DecInt(-2000)}

ReportedPositions ==
    {[k \in AllKeys |->
        IF k = <<"binance", "BTC-PERP">> THEN a
        ELSE IF k = <<"bybit", "BTC-PERP">> THEN b
        ELSE IF k = <<"binance", "ETH-PERP">> THEN c
        ELSE DecZero] : a \in ReportedSizes, b \in ReportedSizes, c \in ReportedSizes}

\* validateTrade(request): the boolean returned and the reason logged; repeated tells
\* that the call before it, with no updateMetrics in between, had the same request
ValidateTradeCall_counting ==
    /\ \E request \in Candidates :
           validated' = [called |-> TRUE,
                         request |-> request,
                         metrics |-> metrics,
                         result |-> validateTrade(request, metrics),
                         reason |-> rejectionReason(request, metrics),
                         repeated |-> validated.called /\ validated.request = request]
    /\ metrics' = [metrics EXCEPT !.totalPositions = @ + 1]
    /\ UNCHANGED <<feed, isRunning, monitoringInterval, timers, startCalls, startNotifying, startRefreshing,
                   stopNotifying, stoppedSince, cycles, cyclesStarted, tradingEnabled,
                   lastStart, notify, transportResponds,
                      screenerOpportunities, screenerCycle, bootstrap>>
    /\ UNCHANGED <<positions, exchangePositions, exec, orphans>>
    /\ UNCHANGED dataVars

ValidateTradeCall ==
    /\ \E request \in Candidates :
           validated' = [called |-> TRUE,
                         request |-> request,
                         metrics |-> metrics,
                         result |-> validateTrade(request, metrics),
                         reason |-> rejectionReason(request, metrics),
                         repeated |-> validated.called /\ validated.request = request]
    /\ UNCHANGED <<feed, isRunning, monitoringInterval, timers, startCalls, startNotifying, startRefreshing,
                   stopNotifying, stoppedSince, cycles, cyclesStarted, tradingEnabled,
                   lastStart, notify, transportResponds,
                      screenerOpportunities, screenerCycle, bootstrap>>
    /\ UNCHANGED execVars
    /\ UNCHANGED dataVars

\* updateMetrics(positions) with the positions the exchanges report
UpdateMetricsCall ==
    /\ \E reported \in ReportedPositions :
           LET ps == getAllPositions(reported, NoPnl)
           IN  /\ metrics' = updateMetrics(ps)
               /\ validated' = [called |-> FALSE, updated |-> TRUE, positions |-> ps, before |-> metrics]
    /\ UNCHANGED <<feed, isRunning, monitoringInterval, timers, startCalls, startNotifying, startRefreshing,
                   stopNotifying, stoppedSince, cycles, cyclesStarted, tradingEnabled,
                   lastStart, notify, transportResponds,
                      screenerOpportunities, screenerCycle, bootstrap>>
    /\ UNCHANGED <<positions, exchangePositions, exec, orphans>>
    /\ UNCHANGED dataVars

\* unrealized profit of the positions handed to shouldTakeProfit and shouldStopLoss
EvaluatedPnl ==
    {DecInt(-2000000), DecInt(-1000000), DecInt(-10000), DecInt(-5000), DecZero,
     DecInt(10000), DecInt(20000), DecInt(2000000)}

EvaluatedPositions ==
    {[symbol |-> "BTC-PERP", exchange |-> "binance", side |-> "long", size |-> DecInt(1000),
      leverage |-> config.defaultLeverage, entryPrice |-> price, unrealizedPnl |-> pnl] :
        price \in EntryPrices, pnl \in EvaluatedPnl}

\* shouldTakeProfit(position) and shouldStopLoss(position): the booleans returned
EvaluateCall ==
    /\ \E position \in EvaluatedPositions :
           validated' = [called |-> FALSE, evaluated |-> TRUE, position |-> position,
                         takeProfit |-> shouldTakeProfit(position),
                         stopLoss |-> shouldStopLoss(position)]
    /\ UNCHANGED <<feed, isRunning, monitoringInterval, timers, startCalls, startNotifying, startRefreshing,
                   stopNotifying, stoppedSince, cycles, cyclesStarted, tradingEnabled,
                   lastStart, notify, transportResponds,
                      screenerOpportunities, screenerCycle, bootstrap>>
    /\ UNCHANGED execVars
    /\ UNCHANGED dataVars

InitRisk ==
    /\ symbols = <<"BTC-PERP", "ETH-PERP">>
    /\ now = 0
    /\ fundingRates = [k \in AllKeys |-> NoFunding]
    /\ marketPrices = [k \in AllKeys |-> NoPrice]
    /\ lastUpdate = 0
    /\ fetchPc = "idle"
    /\ fetchPending = {}
    /\ fetched = [k \in AllKeys |-> NotFetched]
    /\ opportunities = <<>>
    /\ exchangePositions = NoExchangePositions
    /\ metrics = InitialMetrics
    /\ positions = <<>>
    /\ exec = [c \in Callers |-> IdleExec]
    /\ orphans = <<>>
    /\ feed = "any"
    /\ InitIdleAgent
    /\ notify = IdleNotification
    /\ transportResponds = TRUE
    /\ InitIdleScreener
    /\ InitIdleBootstrap

NextRisk ==
    \/ ValidateTradeCall
    \/ UpdateMetricsCall
    \/ EvaluateCall

SpecRisk ==
    InitRisk /\ [][NextRisk]_vars

(* ------------------------------------------------------------------ *)
(* The aggregator and detector driven directly                         *)
(* ------------------------------------------------------------------ *)
AdvanceClock ==
    /\ now < MaxTime
    /\ fetchPc \in {"idle", "detected"}
    /\ now' = now + 1
    /\ UNCHANGED <<symbols, fundingRates, marketPrices, lastUpdate, fetchPc, fetchPending, fetched, opportunities>>
    /\ UNCHANGED execVars
    /\ UNCHANGED agentVars

Refresh ==
    fetchMarketDataCall

Settle ==
    \E k \in Keys : \E out \in Feed(k) : updateExchangeData(k, out)

RefreshReturn ==
    fetchMarketDataReturn

Detect ==
    /\ fetchPc = "returned"
    /\ fetchPc' = "detected"
    /\ opportunities' = findArbitrageOpportunities(fundingRates, marketPrices, symbols, minFundingDiff, minProfitThreshold)
    /\ UNCHANGED <<symbols, now, fundingRates, marketPrices, lastUpdate, fetchPending, fetched>>
    /\ UNCHANGED execVars
    /\ UNCHANGED agentVars

InitData ==
    /\ symbols = <<"BTC-PERP">>
    /\ now = 0
    /\ fundingRates = [k \in AllKeys |-> NoFunding]
    /\ marketPrices = [k \in AllKeys |-> NoPrice]
    /\ lastUpdate = 0
    /\ fetchPc = "idle"
    /\ fetchPending = {}
    /\ fetched = [k \in AllKeys |-> NotFetched]
    /\ opportunities = <<>>
    /\ InitIdleExecution
    /\ feed = "any"
    /\ InitIdleAgent
    /\ notify = IdleNotification
    /\ transportResponds = TRUE
    /\ InitIdleScreener
    /\ InitIdleBootstrap

NextData ==
    \/ AdvanceClock
    \/ Refresh
    \/ Settle
    \/ RefreshReturn
    \/ Detect

SpecData ==
    InitData /\ [][NextData]_vars

\* the aggregator and the executor called directly, side by side, in a market where
\* every fetch either fails or reports the same rate
InitCore ==
    /\ symbols = <<"BTC-PERP">>
    /\ now = 0
    /\ fundingRates = [k \in AllKeys |-> NoFunding]
    /\ marketPrices = [k \in AllKeys |-> NoPrice]
    /\ lastUpdate = 0
    /\ fetchPc = "idle"
    /\ fetchPending = {}
    /\ fetched = [k \in AllKeys |-> NotFetched]
    /\ opportunities = <<>>
    /\ InitIdleExecution
    /\ feed = "flat"
    /\ InitIdleAgent
    /\ notify = IdleNotification
    /\ transportResponds = TRUE
    /\ InitIdleScreener
    /\ InitIdleBootstrap

NextCore ==
    \/ Refresh
    \/ Settle
    \/ RefreshReturn
    \/ Detect
    \/ ExecCall
    \/ LegFulfils
    \/ LegThrows
    \/ OrphanSettles
    \/ ExecReturn

SpecCore ==
    InitCore /\ [][NextCore]_vars

(* ------------------------------------------------------------------ *)
(* FundingArbitrageAgent                                               *)
(* ------------------------------------------------------------------ *)
\* Array.prototype.sort with the comparator b.expectedProfit - a.expectedProfit (stable)
RECURSIVE insertByProfit(_, _)
insertByProfit(o, sorted) ==
    IF sorted = <<>> THEN <<o>>
    ELSE IF DecLt(Head(sorted).expectedProfit, o.expectedProfit) THEN <<o>> \o sorted
    ELSE <<Head(sorted)>> \o insertByProfit(o, Tail(sorted))

RECURSIVE sortFrom(_, _)
sortFrom(rest, sorted) ==
    IF rest = <<>> THEN sorted
    ELSE sortFrom(Tail(rest), insertByProfit(Head(rest), sorted))

\* the opportunities left as the detector returned them
sortByProfit_unsorted(opps) ==
    opps

sortByProfit(opps) ==
    sortFrom(opps, <<>>)

\* executeArbitrage: the size and the two requests built for an opportunity
tradeSizeOf_uncapped(opportunity) ==
    DecMul(config.basePositionSize,
           DecAdd(DecMul(opportunity.expectedProfit, config.maxSizeMultiplier), DecInt(1)))

tradeSizeOf(opportunity) ==
    DecMin(DecMul(config.basePositionSize,
                  DecAdd(DecMul(opportunity.expectedProfit, config.maxSizeMultiplier), DecInt(1))),
           config.maxPositionSize)

longRequestOf(opportunity) ==
    [symbol |-> opportunity.symbol, exchange |-> opportunity.longExchange, side |-> "long",
     size |-> tradeSizeOf(opportunity), leverage |-> config.defaultLeverage,
     hasLimitPrice |-> FALSE, limitPrice |-> DecZero]

shortRequestOf(opportunity) ==
    [symbol |-> opportunity.symbol, exchange |-> opportunity.shortExchange, side |-> "short",
     size |-> tradeSizeOf(opportunity), leverage |-> config.defaultLeverage,
     hasLimitPrice |-> FALSE, limitPrice |-> DecZero]

\* if (this.config.tradingEnabled)
tradingAllowed_always(enabled) ==
    TRUE

tradingAllowed(enabled) ==
    enabled

\* the loop of monitor() over the sorted opportunities, up to the first call that awaits its legs
RECURSIVE processOpportunities(_, _, _)
processOpportunities(queue, m, tracked) ==
    IF queue = <<>> THEN [found |-> FALSE, exec |-> IdleExec, rest |-> <<>>, attempts |-> 0]
    ELSE IF ~tradingAllowed(tradingEnabled) THEN processOpportunities(Tail(queue), m, tracked)
    ELSE LET e == executeArbitrageTradeCall(longRequestOf(Head(queue)), shortRequestOf(Head(queue)), m, tracked)
             later == processOpportunities(Tail(queue), m, tracked)
         IN  IF e.pc = "legs"
                THEN [found |-> TRUE, exec |-> e, rest |-> Tail(queue), attempts |-> 1]
                ELSE [later EXCEPT !.attempts = @ + 1]

\* monitor() resumes its loop; after the last opportunity managePositions calls getAllPositions
continueMonitor(c, order, queue, attempted, threw, errors) ==
    LET r == processOpportunities(queue, metrics, positions)
    IN  IF r.found
           THEN /\ cycles' = [cycles EXCEPT ![c] =
                        [IdleCycle EXCEPT !.pc = "legs", !.queue = r.rest, !.order = order,
                                          !.attempted = attempted + r.attempts,
                                          !.oppThrew = threw, !.oppErrors = errors]]
                /\ exec' = [exec EXCEPT ![c] = r.exec]
           ELSE /\ cycles' = [cycles EXCEPT ![c] =
                        [IdleCycle EXCEPT !.pc = "positions", !.order = order,
                                          !.attempted = attempted + r.attempts,
                                          !.oppThrew = threw, !.oppErrors = errors]]
                /\ exec' = [exec EXCEPT ![c] = IdleExec]

\* every updateExchangeData of one fetchMarketData call has settled
storedRates(outs) ==
    [k \in AllKeys |->
        IF k \in Keys /\ outs[k].fundingOk /\ outs[k].priceOk
           THEN [present |-> TRUE, fundingRate |-> outs[k].rate, timestamp |-> now]
           ELSE fundingRates[k]]

storedPrices(outs) ==
    [k \in AllKeys |->
        IF k \in Keys /\ outs[k].fundingOk /\ outs[k].priceOk
           THEN [present |-> TRUE, price |-> outs[k].price, timestamp |-> now]
           ELSE marketPrices[k]]

storeFetched(outs) ==
    /\ fundingRates' = storedRates(outs)
    /\ marketPrices' = storedPrices(outs)
    /\ lastUpdate' = now

\* one outcome per fetched key
RECURSIVE outcomesOver(_)
outcomesOver(ks) ==
    IF ks = {} THEN {<<>>}
    ELSE LET k == CHOOSE x \in ks : TRUE
         IN  {f @@ (k :> o) : f \in outcomesOver(ks \ {k}), o \in Feed(k)}

FeedOutcomes ==
    outcomesOver(Keys)

getLatestMarketData(symbol, exchange) ==
    LET k == <<exchange, symbol>>
    IN  [present |-> marketPrices[k].present /\ fundingRates[k].present,
         lastPrice |-> marketPrices[k].price,
         fundingRate |-> fundingRates[k].fundingRate,
         timestamp |-> marketPrices[k].timestamp]

\* one pass of the loop of managePositions: a position without a snapshot is skipped,
\* take-profit is tested before stop-loss and either closes the position
closesPosition_withoutSnapshot(position) ==
    shouldTakeProfit(position) \/ shouldStopLoss(position)

closesPosition(position) ==
    /\ getLatestMarketData(position.symbol, position.exchange).present
    /\ (shouldTakeProfit(position) \/ shouldStopLoss(position))

\* the loop of managePositions, up to the first position it closes
RECURSIVE nextToClose(_)
nextToClose(ps) ==
    IF ps = <<>> THEN <<>>
    ELSE IF closesPosition(Head(ps)) THEN ps
    ELSE nextToClose(Tail(ps))

continueManage(c, ps, outcome, notification) ==
    LET remaining == nextToClose(ps)
    IN  IF remaining = <<>>
           THEN cycles' = [cycles EXCEPT ![c] = IdleCycle]
           ELSE cycles' = [cycles EXCEPT ![c] =
                    [IdleCycle EXCEPT !.pc = "closing", !.toManage = remaining, !.metricsUpdated = TRUE,
                                      !.closeCalls = Append(cycles[c].closeCalls,
                                                            <<Head(remaining).exchange, Head(remaining).symbol>>),
                                      !.closeOutcome = outcome, !.closeNotification = notification]]

\* unrealized profit an exchange may report for a position: a loss or none, and in a
\* patchy market also a gain
PnlValues ==
    IF feed = "patchy" THEN {DecInt(-50000), DecZero, DecInt(50000)} ELSE {DecInt(-50000), DecZero}

RECURSIVE pnlOver(_)
pnlOver(ks) ==
    IF ks = {} THEN {[k \in AllKeys |-> DecZero]}
    ELSE LET k == CHOOSE x \in ks : TRUE
         IN  {[f EXCEPT ![k] = v] : f \in pnlOver(ks \ {k}), v \in PnlValues}

PnlReports ==
    pnlOver({k \in AllKeys : hasPosition(exchangePositions, k)})

dataFrame ==
    UNCHANGED <<symbols, now, fundingRates, marketPrices, lastUpdate, fetchPc, fetchPending, fetched, opportunities, feed, tradingEnabled, validated,
                notify, transportResponds,
                   screenerOpportunities, screenerCycle, bootstrap>>

schedulerFrame ==
    UNCHANGED <<isRunning, monitoringInterval, timers, startCalls, startNotifying, startRefreshing,
                stopNotifying, stoppedSince, cyclesStarted, lastStart>>

\* start(): returns at once when running, else sets isRunning and awaits the start notification
StartCall_unguarded ==
    /\ startCalls < MaxStarts
    /\ startCalls' = startCalls + 1
    /\ stoppedSince' = FALSE
    /\ lastStart' = IF isRunning THEN "ignored" ELSE "started"
    /\ isRunning' = TRUE
    /\ startNotifying' = startNotifying + 1
    /\ UNCHANGED <<monitoringInterval, timers, startRefreshing, stopNotifying, cycles, cyclesStarted>>
    /\ UNCHANGED execVars
    /\ dataFrame

StartCall ==
    /\ startCalls < MaxStarts
    /\ startCalls' = startCalls + 1
    /\ stoppedSince' = FALSE
    /\ lastStart' = IF isRunning THEN "ignored" ELSE "started"
    /\ IF isRunning
          THEN UNCHANGED <<isRunning, startNotifying>>
          ELSE /\ isRunning' = TRUE
               /\ startNotifying' = startNotifying + 1
    /\ UNCHANGED <<monitoringInterval, timers, startRefreshing, stopNotifying, cycles, cyclesStarted>>
    /\ UNCHANGED execVars
    /\ dataFrame

\* start(): the notification settles and the initial fetchMarketData is called
StartNotified_schedulesFirst ==
    /\ startNotifying > 0
    /\ transportResponds
    /\ startNotifying' = startNotifying - 1
    /\ startRefreshing' = startRefreshing + 1
    /\ timers' = timers \cup {MaxStarts + 1}
    /\ monitoringInterval' = MaxStarts + 1
    /\ UNCHANGED <<isRunning, startCalls, stopNotifying, stoppedSince, cycles, cyclesStarted, lastStart>>
    /\ UNCHANGED execVars
    /\ dataFrame

StartNotified ==
    /\ startNotifying > 0
    /\ transportResponds
    /\ startNotifying' = startNotifying - 1
    /\ startRefreshing' = startRefreshing + 1
    /\ UNCHANGED <<isRunning, monitoringInterval, timers, startCalls, stopNotifying, stoppedSince, cycles, cyclesStarted, lastStart>>
    /\ UNCHANGED execVars
    /\ dataFrame

\* start(): the initial refresh settles and setInterval schedules the monitoring loop
StartRefreshSettles ==
    /\ startRefreshing > 0
    /\ startRefreshing' = startRefreshing - 1
    /\ \E outs \in FeedOutcomes : storeFetched(outs)
    /\ LET id == CHOOSE i \in 1..MaxStarts : i \notin timers /\ \A j \in 1..(i - 1) : j \in timers
       IN  /\ timers' = timers \cup {id}
           /\ monitoringInterval' = id
    /\ UNCHANGED <<symbols, now, fetchPc, fetchPending, fetched, opportunities, feed, tradingEnabled, validated,
                   notify, transportResponds,
                      screenerOpportunities, screenerCycle, bootstrap>>
    /\ UNCHANGED <<isRunning, startCalls, startNotifying, stopNotifying, stoppedSince, cycles, cyclesStarted, lastStart>>
    /\ UNCHANGED execVars

\* stop(): returns at once when not running, else clears the timer and awaits the stop notification
StopCall ==
    /\ stopNotifying = 0
    /\ IF ~isRunning
          THEN /\ stoppedSince' = TRUE
               /\ UNCHANGED <<isRunning, monitoringInterval, timers, stopNotifying>>
          ELSE /\ isRunning' = FALSE
               /\ timers' = timers \ {monitoringInterval}
               /\ monitoringInterval' = 0
               /\ stopNotifying' = 1
               /\ UNCHANGED stoppedSince
    /\ UNCHANGED <<startCalls, startNotifying, startRefreshing, cycles, cyclesStarted, lastStart>>
    /\ UNCHANGED execVars
    /\ dataFrame

\* stop(): the notification settles and stop() returns
StopReturns ==
    /\ stopNotifying > 0
    /\ transportResponds
    /\ stopNotifying' = 0
    /\ stoppedSince' = TRUE
    /\ UNCHANGED <<isRunning, monitoringInterval, timers, startCalls, startNotifying, startRefreshing, cycles, cyclesStarted, lastStart>>
    /\ UNCHANGED execVars
    /\ dataFrame

FreeCallers ==
    {c \in Callers : cycles[c].pc = "idle"}

TickLimit ==
    IF feed \in {"steady", "patchy"} THEN MaxTradingCycles ELSE MaxTicks

\* a scheduled timer fires: monitor() is invoked and calls fetchMarketData
Tick ==
    /\ timers # {}
    /\ cyclesStarted < TickLimit
    /\ FreeCallers # {}
    /\ LET c == CHOOSE x \in FreeCallers : \A y \in FreeCallers : x <= y
       IN  cycles' = [cycles EXCEPT ![c] = [IdleCycle EXCEPT !.pc = "refresh"]]
    /\ cyclesStarted' = cyclesStarted + 1
    /\ UNCHANGED <<isRunning, monitoringInterval, timers, startCalls, startNotifying, startRefreshing,
                   stopNotifying, stoppedSince, lastStart>>
    /\ UNCHANGED execVars
    /\ dataFrame

\* monitor(): the refresh settles; opportunities are found, sorted and processed
CycleRefreshSettles(c) ==
    /\ cycles[c].pc = "refresh"
    /\ \E outs \in FeedOutcomes :
           /\ storeFetched(outs)
           /\ LET sorted == sortByProfit(findArbitrageOpportunities(
                       storedRates(outs), storedPrices(outs), symbols, minFundingDiff, minProfitThreshold))
              IN  continueMonitor(c, sorted, sorted, 0, FALSE, 0)
    /\ UNCHANGED <<symbols, now, fetchPc, fetchPending, fetched, opportunities, feed, tradingEnabled, validated,
                   notify, transportResponds,
                      screenerOpportunities, screenerCycle, bootstrap>>
    /\ UNCHANGED <<metrics, positions, exchangePositions, orphans>>
    /\ schedulerFrame

CycleLegFulfils(c) ==
    /\ cycles[c].pc = "legs"
    /\ \E leg \in {"long", "short"}, price \in EntryPrices : legFulfils(c, leg, price)
    /\ UNCHANGED cycles
    /\ schedulerFrame
    /\ dataFrame

CycleLegThrows(c) ==
    /\ cycles[c].pc = "legs"
    /\ \E leg \in {"long", "short"} : legThrows(c, leg)
    /\ UNCHANGED cycles
    /\ schedulerFrame
    /\ dataFrame

CycleOrphanSettles ==
    /\ \E i \in 1..Len(orphans), filled \in BOOLEAN : orphanSettles(i, filled)
    /\ UNCHANGED cycles
    /\ schedulerFrame
    /\ dataFrame

\* how the promise of monitor() settles: an error of any phase ends in a catch block,
\* that of managePositions or its own, which logs, notifies and returns
monitorPromise_rethrows(error) ==
    IF error THEN "rejected" ELSE "fulfilled"

monitorPromise(error) ==
    "fulfilled"

\* how the promise of executeArbitrageTrade settles: its catch block returns false
executeArbitrageTradePromise_rethrows(e) ==
    IF e.long = "failed" \/ e.short = "failed" THEN "rejected" ELSE "fulfilled"

executeArbitrageTradePromise(e) ==
    "fulfilled"

\* error notifications sent by the catch block of executeArbitrage
wrapperNotifications(e) ==
    IF executeArbitrageTradePromise(e) = "rejected" THEN 1 ELSE 0

\* how the promise of executeArbitrage settles: its try/catch lets nothing out
executeArbitragePromise_propagates(e) ==
    IF e.long = "failed" \/ e.short = "failed" THEN "rejected" ELSE "fulfilled"

executeArbitragePromise(e) ==
    "fulfilled"

\* executeArbitrageTrade returns to executeArbitrage, which returns to the loop of monitor();
\* a rejection would end the loop in the catch block of monitor()
CycleExecReturns(c) ==
    /\ cycles[c].pc = "legs"
    /\ exec[c].pc = "notifying"
    /\ transportResponds
    /\ IF executeArbitragePromise(exec[c]) = "rejected"
          THEN /\ cycles' = [cycles EXCEPT ![c] = [IdleCycle EXCEPT !.error = TRUE,
                                                           !.rejected = (monitorPromise(TRUE) = "rejected")]]
               /\ exec' = [exec EXCEPT ![c] = IdleExec]
          ELSE continueMonitor(c, cycles[c].order, cycles[c].queue, cycles[c].attempted,
                               exec[c].long = "failed" \/ exec[c].short = "failed",
                               exec[c].errorNotifications + wrapperNotifications(exec[c]))
    /\ UNCHANGED <<metrics, positions, exchangePositions, orphans>>
    /\ schedulerFrame
    /\ dataFrame

\* managePositions: getAllPositions returns, the metrics are recomputed, positions are examined
CyclePositionsSettle(c) ==
    /\ cycles[c].pc = "positions"
    /\ \E pnl \in PnlReports :
           LET ps == getAllPositions(exchangePositions, pnl)
           IN  /\ metrics' = updateMetrics(ps)
               /\ continueManage(c, ps, "none", "none")
    /\ UNCHANGED <<positions, exchangePositions, exec, orphans>>
    /\ schedulerFrame
    /\ dataFrame

\* the metrics once getAllPositions has thrown: updateMetrics is not reached
metricsAfterThrow_partial(m, fetchedBefore) ==
    updateMetrics(fetchedBefore)

metricsAfterThrow(m, fetchedBefore) ==
    m

\* managePositions: a getPosition call throws, the catch block notifies and ends the cycle
CyclePositionsThrow(c) ==
    /\ cycles[c].pc = "positions"
    /\ \E pnl \in PnlReports, failing \in 1..Len(keysInOrder(1, 1)) :
           metrics' = metricsAfterThrow(metrics,
                          positionsOf(exchangePositions, SubSeq(keysInOrder(1, 1), 1, failing - 1), pnl))
    /\ cycles' = [cycles EXCEPT ![c] = [IdleCycle EXCEPT !.error = TRUE,
                                                           !.rejected = (monitorPromise(TRUE) = "rejected"),
                                                           !.systemErrors = 1]]
    /\ UNCHANGED <<positions, exchangePositions, exec, orphans>>
    /\ schedulerFrame
    /\ dataFrame

\* connector.closePosition resolves true, resolves false, or rejects
CloseOutcomes ==
    {"closed", "refused", "threw"}

\* what the agent's closePosition sends once the connector call has settled
closeNotificationOf(outcome) ==
    IF outcome = "threw" THEN "trade_error" ELSE "none"

\* closePosition: the connector's closePosition settles, the loop of managePositions goes on
CycleCloseSettles(c) ==
    /\ cycles[c].pc = "closing"
    /\ \E outcome \in CloseOutcomes :
           LET p == Head(cycles[c].toManage)
           IN  /\ exchangePositions' = IF outcome = "closed"
                                           THEN [exchangePositions EXCEPT ![<<p.exchange, p.symbol>>] = DecZero]
                                           ELSE exchangePositions
               /\ continueManage(c, Tail(cycles[c].toManage), outcome, closeNotificationOf(outcome))
    /\ UNCHANGED <<metrics, positions, exec, orphans>>
    /\ schedulerFrame
    /\ dataFrame

\* the agent before start(), in a flat market
Init ==
    /\ symbols = <<"BTC-PERP">>
    /\ now = 0
    /\ fundingRates = [k \in AllKeys |-> NoFunding]
    /\ marketPrices = [k \in AllKeys |-> NoPrice]
    /\ lastUpdate = 0
    /\ fetchPc = "idle"
    /\ fetchPending = {}
    /\ fetched = [k \in AllKeys |-> NotFetched]
    /\ opportunities = <<>>
    /\ InitIdleExecution
    /\ feed = "flat"
    /\ InitIdleAgent
    /\ notify = IdleNotification
    /\ transportResponds = TRUE
    /\ InitIdleScreener
    /\ InitIdleBootstrap

Next ==
    \/ StartCall
    \/ StartNotified
    \/ StartRefreshSettles
    \/ StopCall
    \/ StopReturns
    \/ Tick
    \/ \E c \in Callers : CycleRefreshSettles(c)
    \/ \E c \in Callers : CyclePositionsSettle(c)
    \/ \E c \in Callers : CyclePositionsThrow(c)

Spec ==
    Init /\ [][Next]_vars

\* the agent after start() has returned, in a steady market
InitRunning ==
    /\ now = 0
    /\ fundingRates = [k \in AllKeys |->
            IF k \in Keys
               THEN [present |-> TRUE, fundingRate |-> SteadyReport(k).rate, timestamp |-> 0]
               ELSE NoFunding]
    /\ marketPrices = [k \in AllKeys |->
            IF k \in Keys
               THEN [present |-> TRUE, price |-> SteadyReport(k).price, timestamp |-> 0]
               ELSE NoPrice]
    /\ lastUpdate = 0
    /\ fetchPc = "idle"
    /\ fetchPending = {}
    /\ fetched = [k \in AllKeys |-> NotFetched]
    /\ opportunities = <<>>
    /\ InitIdleExecution
    /\ feed = "steady"
    /\ isRunning = TRUE
    /\ monitoringInterval = 1
    /\ timers = {1}
    /\ startCalls = 1
    /\ startNotifying = 0
    /\ startRefreshing = 0
    /\ stopNotifying = 0
    /\ stoppedSince = FALSE
    /\ cycles = [c \in Callers |-> IdleCycle]
    /\ cyclesStarted = 0
    /\ validated = NotValidated
    /\ lastStart = "started"
    /\ notify = IdleNotification
    /\ transportResponds = TRUE
    /\ InitIdleScreener
    /\ InitIdleBootstrap

InitTrading ==
    /\ symbols = <<"BTC-PERP">>
    /\ tradingEnabled \in BOOLEAN
    /\ InitRunning

NextTrading ==
    \/ Tick
    \/ \E c \in Callers : CycleRefreshSettles(c)
    \/ \E c \in Callers : CycleLegFulfils(c)
    \/ \E c \in Callers : CycleLegThrows(c)
    \/ CycleOrphanSettles
    \/ \E c \in Callers : CycleExecReturns(c)
    \/ \E c \in Callers : CyclePositionsSettle(c)
    \/ \E c \in Callers : CyclePositionsThrow(c)
    \/ \E c \in Callers : CycleCloseSettles(c)

SpecTrading ==
    InitTrading /\ [][NextTrading]_vars

\* long positions the exchanges may hold
LongPositions ==
    {ep \in HeldPositions : \A k \in AllKeys : ep[k].n >= 0}

\* the agent running in detect-only mode with positions held on the exchanges and no
\* snapshot stored yet, in a patchy market: a fetch may fail, a position may show a gain
InitManage ==
    /\ symbols = <<"BTC-PERP">>
    /\ now = 0
    /\ fundingRates = [k \in AllKeys |-> NoFunding]
    /\ marketPrices = [k \in AllKeys |-> NoPrice]
    /\ lastUpdate = 0
    /\ fetchPc = "idle"
    /\ fetchPending = {}
    /\ fetched = [k \in AllKeys |-> NotFetched]
    /\ opportunities = <<>>
    /\ exchangePositions \in LongPositions
    /\ metrics = InitialMetrics
    /\ positions = <<>>
    /\ exec = [c \in Callers |-> IdleExec]
    /\ orphans = <<>>
    /\ feed = "patchy"
    /\ isRunning = TRUE
    /\ monitoringInterval = 1
    /\ timers = {1}
    /\ startCalls = 1
    /\ startNotifying = 0
    /\ startRefreshing = 0
    /\ stopNotifying = 0
    /\ stoppedSince = FALSE
    /\ cycles = [c \in Callers |-> IdleCycle]
    /\ cyclesStarted = 0
    /\ tradingEnabled = FALSE
    /\ validated = NotValidated
    /\ lastStart = "started"
    /\ notify = IdleNotification
    /\ transportResponds = TRUE
    /\ InitIdleScreener
    /\ InitIdleBootstrap

NextManage ==
    \/ Tick
    \/ \E c \in Callers : CycleRefreshSettles(c)
    \/ \E c \in Callers : CyclePositionsSettle(c)
    \/ \E c \in Callers : CyclePositionsThrow(c)
    \/ \E c \in Callers : CycleCloseSettles(c)

SpecManage ==
    InitManage /\ [][NextManage]_vars

\* the same agent configured with two symbols, in either order
SymbolLists ==
    {<<"BTC-PERP", "ETH-PERP">>, <<"ETH-PERP", "BTC-PERP">>}

InitOrder ==
    /\ symbols \in SymbolLists
    /\ tradingEnabled = TRUE
    /\ InitRunning

SpecOrder ==
    InitOrder /\ [][NextTrading]_vars

(* ------------------------------------------------------------------ *)
(* NotificationService called directly                                 *)
(* ------------------------------------------------------------------ *)
\* one type for each of sendSystemNotification, sendTradeNotification, sendErrorNotification
NotificationTypes ==
    {"system_start", "trade_executed", "trade_error"}

\* fetch resolves with an ok status, resolves with an error status, rejects,
\* or resolves ok with a body that response.json() cannot read
TransportOutcomes ==
    {"ok", "httpError", "threw", "badBody"}

\* the outcome makes the body of sendToTelegram / sendToDiscord throw
channelFails(n, outcome) ==
    \/ outcome \in {"httpError", "threw"}
    \/ outcome = "badBody" /\ n.variant = "telegram"

\* how the promise of sendToTelegram / sendToDiscord settles: the try/catch logs the error
sendToChannelPromise_nocatch(n, outcome) ==
    IF channelFails(n, outcome) THEN "rejected" ELSE "fulfilled"

sendToChannelPromise(n, outcome) ==
    "fulfilled"

\* after sendToTelegram: sendToDiscord posts when a webhook is configured, else the call returns
afterTelegram(n) ==
    IF n.variant = "channels" /\ n.discord
       THEN [n EXCEPT !.pc = "discord", !.posts = Append(@, "discord")]
       ELSE [n EXCEPT !.pc = "returned"]

\* send*Notification up to its first pending fetch, or to its return
sendNotificationCall(n, type) ==
    LET called == [n EXCEPT !.type = type, !.posts = <<>>, !.failures = 0, !.raised = FALSE, !.warned = FALSE]
    IN  IF ~n.enabled THEN [called EXCEPT !.pc = "returned"]
        ELSE IF n.telegram THEN [called EXCEPT !.pc = "telegram", !.posts = <<"telegram">>]
        ELSE afterTelegram([called EXCEPT !.warned = (n.variant = "telegram")])

\* the pending fetch settles; a rejected channel promise is caught by send*Notification
\* where it has a try/catch, and propagates to the caller where it has none
channelSettles(n, outcome) ==
    LET settled == [n EXCEPT !.failures = @ + (IF channelFails(n, outcome) THEN 1 ELSE 0)]
    IN  IF sendToChannelPromise(n, outcome) = "rejected"
           THEN [settled EXCEPT !.pc = "returned", !.raised = (n.variant = "telegram")]
        ELSE IF n.pc = "telegram" THEN afterTelegram(settled)
        ELSE [settled EXCEPT !.pc = "returned"]

notifyFrame ==
    /\ UNCHANGED <<feed, isRunning, monitoringInterval, timers, startCalls, startNotifying, startRefreshing,
                   stopNotifying, stoppedSince, cycles, cyclesStarted, tradingEnabled, validated,
                   lastStart, transportResponds,
                      screenerOpportunities, screenerCycle, bootstrap>>
    /\ UNCHANGED execVars
    /\ UNCHANGED dataVars

SendCall ==
    /\ notify.pc \in {"idle", "returned"}
    /\ \E type \in NotificationTypes : notify' = sendNotificationCall(notify, type)
    /\ notifyFrame

ChannelSettles ==
    /\ notify.pc \in {"telegram", "discord"}
    /\ transportResponds
    /\ \E outcome \in TransportOutcomes : notify' = channelSettles(notify, outcome)
    /\ notifyFrame

\* what config.notifications.enabled holds
ConfiguredEnabled ==
    {"true", "false", "absent"}

\* the enabled flag of the service its owner constructs: main() hands the configuration over,
\* the agent spreads it over { enabled: true }, the screener-driven agent only copies telegram
serviceEnabled(owner, configured) ==
    IF owner = "main" THEN configured = "true"
    ELSE IF owner = "agent" THEN configured # "false"
    ELSE TRUE

\* the services main() and either agent construct: each channel configured or not
NotificationConfigs ==
    {[IdleNotification EXCEPT !.owner = o, !.configured = c, !.variant = v,
                              !.enabled = serviceEnabled(o, c),
                              !.telegram = t,
                              !.discord = (d /\ v = "channels" /\ o # "screenerAgent")] :
        o \in {"main", "agent", "screenerAgent"}, c \in ConfiguredEnabled, v \in {"channels", "telegram"},
        t \in BOOLEAN, d \in BOOLEAN}

InitNotify ==
    /\ symbols = <<"BTC-PERP">>
    /\ now = 0
    /\ fundingRates = [k \in AllKeys |-> NoFunding]
    /\ marketPrices = [k \in AllKeys |-> NoPrice]
    /\ lastUpdate = 0
    /\ fetchPc = "idle"
    /\ fetchPending = {}
    /\ fetched = [k \in AllKeys |-> NotFetched]
    /\ opportunities = <<>>
    /\ InitIdleExecution
    /\ feed = "flat"
    /\ InitIdleAgent
    /\ notify \in NotificationConfigs
    /\ transportResponds \in BOOLEAN
    /\ InitIdleScreener
    /\ InitIdleBootstrap

NextNotify ==
    \/ SendCall
    \/ ChannelSettles

SpecNotify ==
    InitNotify /\ [][NextNotify]_vars

(* ------------------------------------------------------------------ *)
(* FundingRateScreener and the screener-driven monitor()               *)
(* ------------------------------------------------------------------ *)
\* the most opportunities the screener's list holds
MaxStored == 3

\* config.screener, spreads in units of 0.0001
screenerConfig ==
    [maxOpportunities |-> 2, minSpreadThreshold |-> 5]

\* opportunities the screener may be given: below, at and above the threshold, synced or not
ScreenedOpportunities ==
    {[symbol |-> "BTC-PERP", rawSpread |-> 4, synced |-> TRUE],
     [symbol |-> "BTC-PERP", rawSpread |-> 5, synced |-> TRUE],
     [symbol |-> "ETH-PERP", rawSpread |-> 8, synced |-> FALSE],
     [symbol |-> "ETH-PERP", rawSpread |-> 8, synced |-> TRUE]}

ScreenedLists ==
    UNION {[1..n -> ScreenedOpportunities] : n \in 0..MaxStored}

\* Array.prototype.sort with the comparator b.rawSpread - a.rawSpread (stable)
RECURSIVE insertBySpread(_, _)
insertBySpread(o, sorted) ==
    IF sorted = <<>> THEN <<o>>
    ELSE IF Head(sorted).rawSpread < o.rawSpread THEN <<o>> \o sorted
    ELSE <<Head(sorted)>> \o insertBySpread(o, Tail(sorted))

RECURSIVE sortBySpread(_, _)
sortBySpread(rest, sorted) ==
    IF rest = <<>> THEN sorted
    ELSE sortBySpread(Tail(rest), insertBySpread(Head(rest), sorted))

\* Array.prototype.slice(0, limit)
sliceTo(list, limit) ==
    SubSeq(list, 1, IF limit < Len(list) THEN limit ELSE Len(list))

\* getTopOpportunities: what it returns and what the stored list is afterwards;
\* the sort works on a copy
getTopOpportunities_inPlace(stored, limit) ==
    [top |-> sliceTo(sortBySpread(stored, <<>>), limit), stored |-> sortBySpread(stored, <<>>)]

getTopOpportunities(stored, limit) ==
    [top |-> sliceTo(sortBySpread(stored, <<>>), limit), stored |-> stored]

\* opportunities.filter(opp => opp.rawSpread >= minSpreadThreshold && opp.synced)
RECURSIVE validOpportunities(_)
validOpportunities(opps) ==
    IF opps = <<>> THEN <<>>
    ELSE (IF Head(opps).rawSpread >= screenerConfig.minSpreadThreshold /\ Head(opps).synced
             THEN <<Head(opps)>> ELSE <<>>) \o validOpportunities(Tail(opps))

screenerFrame ==
    /\ UNCHANGED <<feed, isRunning, monitoringInterval, timers, startCalls, startNotifying, startRefreshing,
                   stopNotifying, stoppedSince, cycles, cyclesStarted, tradingEnabled, validated,
                   lastStart, notify, transportResponds, bootstrap>>
    /\ UNCHANGED execVars
    /\ UNCHANGED dataVars

addOpportunity ==
    /\ Len(screenerOpportunities) < MaxStored
    /\ \E opportunity \in ScreenedOpportunities :
           screenerOpportunities' = Append(screenerOpportunities, opportunity)
    /\ UNCHANGED screenerCycle
    /\ screenerFrame

updateOpportunities ==
    /\ \E opps \in ScreenedLists : screenerOpportunities' = opps
    /\ UNCHANGED screenerCycle
    /\ screenerFrame

clearOpportunities ==
    /\ screenerOpportunities' = <<>>
    /\ UNCHANGED screenerCycle
    /\ screenerFrame

\* the loop of monitor() over the valid opportunities, up to its next executeArbitrage call
continueScreenerMonitor(considered, queue, executed) ==
    IF queue # <<>> /\ tradingAllowed(tradingEnabled)
       THEN [pc |-> "executing", considered |-> considered, queue |-> Tail(queue),
             executed |-> Append(executed, Head(queue))]
       ELSE [pc |-> "managing", considered |-> considered, queue |-> <<>>, executed |-> executed]

\* a tick of the screener-driven agent: monitor() takes the top opportunities, filters them
\* and runs to its first await
ScreenerMonitorCall ==
    /\ screenerCycle.pc = "idle"
    /\ LET r == getTopOpportunities(screenerOpportunities, screenerConfig.maxOpportunities)
       IN  /\ screenerOpportunities' = r.stored
           /\ screenerCycle' = continueScreenerMonitor(r.top, validOpportunities(r.top), <<>>)
    /\ screenerFrame

\* the awaited executeArbitrage settles and the loop goes on
ScreenerExecuteReturns ==
    /\ screenerCycle.pc = "executing"
    /\ screenerCycle' = continueScreenerMonitor(screenerCycle.considered, screenerCycle.queue,
                                                screenerCycle.executed)
    /\ UNCHANGED screenerOpportunities
    /\ screenerFrame

\* the awaited managePositions settles and monitor() returns
ScreenerManageReturns ==
    /\ screenerCycle.pc = "managing"
    /\ screenerCycle' = IdleScreenerCycle
    /\ UNCHANGED screenerOpportunities
    /\ screenerFrame

InitScreener ==
    /\ symbols = <<"BTC-PERP">>
    /\ now = 0
    /\ fundingRates = [k \in AllKeys |-> NoFunding]
    /\ marketPrices = [k \in AllKeys |-> NoPrice]
    /\ lastUpdate = 0
    /\ fetchPc = "idle"
    /\ fetchPending = {}
    /\ fetched = [k \in AllKeys |-> NotFetched]
    /\ opportunities = <<>>
    /\ InitIdleExecution
    /\ feed = "flat"
    /\ InitIdleAgent
    /\ notify = IdleNotification
    /\ transportResponds = TRUE
    /\ InitIdleScreener
    /\ InitIdleBootstrap

NextScreener ==
    \/ addOpportunity
    \/ updateOpportunities
    \/ clearOpportunities
    \/ ScreenerMonitorCall
    \/ ScreenerExecuteReturns
    \/ ScreenerManageReturns

SpecScreener ==
    InitScreener /\ [][NextScreener]_vars

(* ------------------------------------------------------------------ *)
(* createConnector and main()                                          *)
(* ------------------------------------------------------------------ *)
\* the most exchanges a configuration lists
MaxConfigured == 2

\* exchange names a caller or a configuration may use
ExchangeNames ==
    {"binance", "Binance", "bybit", "BYBIT", "okx", "OKX", "kraken"}

\* String.prototype.toLowerCase on those names
toLowerCase(name) ==
    CASE name = "Binance" -> "binance"
      [] name = "BYBIT" -> "bybit"
      [] name = "OKX" -> "okx"
      [] OTHER -> name

\* config.passphrase: undefined, the empty string or a value
Passphrases ==
    {"absent", "", "secret"}

\* OKX accepted without its passphrase
createConnector_noPassphraseCheck(exchange, cfg) ==
    LET name == toLowerCase(exchange)
    IN  IF name = "binance" THEN [raised |-> FALSE, connector |-> "BinanceConnector"]
        ELSE IF name = "bybit" THEN [raised |-> FALSE, connector |-> "BybitConnector"]
        ELSE IF name = "okx" THEN [raised |-> FALSE, connector |-> "OKXConnector"]
        ELSE [raised |-> TRUE, connector |-> "none"]

createConnector(exchange, cfg) ==
    LET name == toLowerCase(exchange)
    IN  IF name = "binance" THEN [raised |-> FALSE, connector |-> "BinanceConnector"]
        ELSE IF name = "bybit" THEN [raised |-> FALSE, connector |-> "BybitConnector"]
        ELSE IF name = "okx"
           THEN IF cfg.passphrase \in {"absent", ""}
                   THEN [raised |-> TRUE, connector |-> "none"]
                   ELSE [raised |-> FALSE, connector |-> "OKXConnector"]
        ELSE [raised |-> TRUE, connector |-> "none"]

\* the configuration main() passes on: apiKey, apiSecret and testnet only
passedConfig(cfg) ==
    [passphrase |-> "absent"]

\* the loop of main() over the configured exchanges; it ends when createConnector throws
RECURSIVE createConnectors(_, _, _)
createConnectors(entries, connectors, calls) ==
    IF entries = <<>> THEN [connectors |-> connectors, calls |-> calls, raised |-> FALSE]
    ELSE LET exchange == Head(entries).exchange
             passed == passedConfig(Head(entries).config)
             made == Append(calls, [exchange |-> exchange, config |-> passed])
             r == createConnector(exchange, passed)
         IN  IF r.raised
                THEN [connectors |-> connectors, calls |-> made, raised |-> TRUE]
                ELSE createConnectors(Tail(entries), mapSet(connectors, exchange, r.connector), made)

\* the exchanges section of a configuration: distinct keys, each with its settings
ExchangeEntries ==
    UNION {{es \in [1..n -> [exchange : ExchangeNames, config : [passphrase : Passphrases]]] :
                \A i, j \in 1..n : es[i].exchange = es[j].exchange => i = j} : n \in 0..MaxConfigured}

bootstrapFrame ==
    /\ UNCHANGED <<feed, isRunning, monitoringInterval, timers, startCalls, startNotifying, startRefreshing,
                   stopNotifying, stoppedSince, cycles, cyclesStarted, tradingEnabled, validated,
                   lastStart, notify, transportResponds, screenerOpportunities, screenerCycle>>
    /\ UNCHANGED execVars
    /\ UNCHANGED dataVars

\* createConnector called on its own
CreateConnectorCall ==
    /\ bootstrap.pc = "idle"
    /\ \E exchange \in ExchangeNames, passphrase \in Passphrases :
           LET cfg == [passphrase |-> passphrase]
               r == createConnector(exchange, cfg)
           IN  bootstrap' = [NotBooted EXCEPT
                                !.pc = "called",
                                !.calls = <<[exchange |-> exchange, config |-> cfg]>>,
                                !.connectors = IF r.raised THEN <<>> ELSE mapSet(<<>>, exchange, r.connector),
                                !.raised = r.raised]
    /\ bootstrapFrame

\* main() up to the await of its test notification
MainCall ==
    /\ bootstrap.pc = "idle"
    /\ \E es \in ExchangeEntries :
           bootstrap' = [NotBooted EXCEPT !.pc = "notifying", !.entries = es]
    /\ bootstrapFrame

\* the notification has settled: the connectors are created, then the agent is constructed
\* and start() is called; an exception ends in process.exit(1)
MainContinues ==
    /\ bootstrap.pc = "notifying"
    /\ transportResponds
    /\ LET r == createConnectors(bootstrap.entries, <<>>, <<>>)
       IN  bootstrap' = [bootstrap EXCEPT
                            !.pc = IF r.raised THEN "exited" ELSE "started",
                            !.calls = r.calls,
                            !.connectors = r.connectors,
                            !.raised = r.raised,
                            !.agent = IF r.raised THEN "none" ELSE "started"]
    /\ bootstrapFrame

InitBootstrap ==
    /\ symbols = <<"BTC-PERP">>
    /\ now = 0
    /\ fundingRates = [k \in AllKeys |-> NoFunding]
    /\ marketPrices = [k \in AllKeys |-> NoPrice]
    /\ lastUpdate = 0
    /\ fetchPc = "idle"
    /\ fetchPending = {}
    /\ fetched = [k \in AllKeys |-> NotFetched]
    /\ opportunities = <<>>
    /\ InitIdleExecution
    /\ feed = "flat"
    /\ InitIdleAgent
    /\ notify = IdleNotification
    /\ transportResponds \in BOOLEAN
    /\ InitIdleScreener
    /\ InitIdleBootstrap

NextBootstrap ==
    \/ CreateConnectorCall
    \/ MainCall
    \/ MainContinues

SpecBootstrap ==
    InitBootstrap /\ [][NextBootstrap]_vars

(* ------------------------------------------------------------------ *)
(* Properties of executeArbitrageTrade                                 *)
(* ------------------------------------------------------------------ *)
LegRejected(trade) ==
    rejectionReason(validationOf(trade), metrics) # "none"

\* C1: when validateTrade rejects the long leg or the short leg,
\* executeArbitrageTrade calls executeTrade on neither connector, leaves the
\* tracked position set unchanged and returns false.
C1_RejectedPairSubmitsNothing ==
    \A c \in Callers :
        (/\ exec[c].pc = "returned"
         /\ (LegRejected(exec[c].longTrade) \/ LegRejected(exec[c].shortTrade)))
            => /\ exec[c].result = "false"
               /\ exec[c].calls = 0
               /\ exec[c].long = "none" /\ exec[c].short = "none"
               /\ positions = exec[c].before

\* a returned call whose long leg passed validation while its short leg was rejected
C1_Witness ==
    /\ exec[1].pc = "returned"
    /\ connectorsFound(exec[1].longTrade, exec[1].shortTrade)
    /\ ~LegRejected(exec[1].longTrade)
    /\ LegRejected(exec[1].shortTrade)

\* C2: when the long leg's executeTrade succeeds and the short leg's throws,
\* executeArbitrageTrade returns false and the long leg's position is in the
\* tracked position set afterwards.
C2_SucceededLegIsTracked ==
    \A c \in Callers :
        (exec[c].pc = "returned" /\ exec[c].long = "ok" /\ exec[c].short = "failed")
            => /\ exec[c].result = "false"
               /\ longKey(exec[c]) \in DOMAIN positions

(* ------------------------------------------------------------------ *)
(* Properties of the aggregator and the detector                       *)
(* ------------------------------------------------------------------ *)
OppsOf(symbol, e1, e2) ==
    {n \in 1..Len(opportunities) :
        /\ opportunities[n].symbol = symbol
        /\ {opportunities[n].longExchange, opportunities[n].shortExchange} = {e1, e2}}

HasSnapshot(k) ==
    fundingRates[k].present /\ marketPrices[k].present

IndexOf(e) ==
    CHOOSE i \in 1..Len(exchanges) : exchanges[i] = e

\* C7: every emitted opportunity has its long leg on the exchange with the
\* lower funding rate and its short leg on the one with the higher rate,
\* whichever of the two comes first in the connector order.
C7_LowerRateIsLong ==
    fetchPc = "detected" =>
        \A n \in 1..Len(opportunities) :
            LET o == opportunities[n]
            IN  /\ o.longExchange # o.shortExchange
                /\ DecLt(fundingRates[<<o.longExchange, o.symbol>>].fundingRate,
                         fundingRates[<<o.shortExchange, o.symbol>>].fundingRate)

\* an opportunity whose long exchange comes after its short exchange in the connector order
C7_Witness ==
    /\ fetchPc = "detected"
    /\ \E n \in 1..Len(opportunities) :
           IndexOf(opportunities[n].longExchange) > IndexOf(opportunities[n].shortExchange)
    /\ \E n \in 1..Len(opportunities) :
           IndexOf(opportunities[n].longExchange) < IndexOf(opportunities[n].shortExchange)

\* the emission condition as the claim words it
ClaimFundingDiff(k1, k2) ==
    DecAbs(DecMinus(fundingRates[k1].fundingRate, fundingRates[k2].fundingRate))

ClaimDeviation(k1, k2) ==
    DecDiv(DecAbs(DecMinus(marketPrices[k1].price, marketPrices[k2].price)),
           DecDiv(DecAdd(marketPrices[k1].price, marketPrices[k2].price), DecInt(2)))

ClaimProfit(k1, k2) ==
    DecMinus(ClaimFundingDiff(k1, k2), ClaimDeviation(k1, k2))

ClaimEmits(k1, k2) ==
    /\ ClaimFundingDiff(k1, k2).n * minFundingDiff.d > minFundingDiff.n * ClaimFundingDiff(k1, k2).d
    /\ ClaimProfit(k1, k2).n * minProfitThreshold.d > minProfitThreshold.n * ClaimProfit(k1, k2).d

\* C8: for each symbol and each unordered pair of exchanges that both have a
\* snapshot, exactly one opportunity is emitted iff the funding difference
\* strictly exceeds minFundingDiff and the funding difference minus the price
\* deviation strictly exceeds minProfitThreshold, none otherwise; the emitted
\* fundingDiff and expectedProfit are those two quantities.
C8_EmittedIffProfitable ==
    fetchPc = "detected" =>
        \A i \in 1..Len(symbols) : \A e1, e2 \in SeqRange(exchanges) :
            LET k1 == <<e1, symbols[i]>>
                k2 == <<e2, symbols[i]>>
                found == OppsOf(symbols[i], e1, e2)
            IN  (e1 # e2 /\ HasSnapshot(k1) /\ HasSnapshot(k2)) =>
                    /\ Cardinality(found) = IF ClaimEmits(k1, k2) THEN 1 ELSE 0
                    /\ \A n \in found :
                           /\ opportunities[n].fundingDiff = ClaimFundingDiff(k1, k2)
                           /\ opportunities[n].expectedProfit = ClaimProfit(k1, k2)

\* one pair is emitted, one pair sits exactly on the funding threshold and one exactly on the profit threshold
C8_Witness ==
    /\ fetchPc = "detected"
    /\ Len(opportunities) = 1
    /\ \E s \in SeqRange(symbols) : \E e1, e2 \in SeqRange(exchanges) :
           /\ HasSnapshot(<<e1, s>>) /\ HasSnapshot(<<e2, s>>)
           /\ ClaimFundingDiff(<<e1, s>>, <<e2, s>>) = minFundingDiff
           /\ DecGt(ClaimProfit(<<e1, s>>, <<e2, s>>), minProfitThreshold)
    /\ \E s \in SeqRange(symbols) : \E e1, e2 \in SeqRange(exchanges) :
           /\ HasSnapshot(<<e1, s>>) /\ HasSnapshot(<<e2, s>>)
           /\ DecGt(ClaimFundingDiff(<<e1, s>>, <<e2, s>>), minFundingDiff)
           /\ ClaimProfit(<<e1, s>>, <<e2, s>>) = minProfitThreshold

AgeDifference(k1, k2) ==
    IntAbs(fundingRates[k1].timestamp - fundingRates[k2].timestamp)

\* C9: no opportunity is emitted for a pair of exchanges whose two snapshots
\* of the symbol differ in age by more than the staleness threshold.
C9_NoOpportunityFromUnsyncedPair ==
    fetchPc = "detected" =>
        \A n \in 1..Len(opportunities) :
            AgeDifference(<<opportunities[n].longExchange, opportunities[n].symbol>>,
                          <<opportunities[n].shortExchange, opportunities[n].symbol>>)
                <= StalenessThreshold

Stored(k) ==
    /\ fundingRates[k].present
    /\ fundingRates[k].fundingRate = fetched[k].rate
    /\ marketPrices[k].present
    /\ marketPrices[k].price = fetched[k].price

\* C10: whatever subset of (symbol, exchange) fetches fails, the refresh
\* completes without raising, and every pair whose funding-rate and price
\* fetches both succeeded holds the fetched values when it returns.
C10_RefreshToleratesFailures ==
    /\ fetchPc # "raised"
    /\ fetchPc = "returned" =>
           \A k \in Keys : fetched[k].settled /\ (fetched[k].ok => Stored(k))

\* a refresh that returned although one pair failed and another succeeded
C10_Witness ==
    /\ fetchPc = "returned"
    /\ \E k \in Keys : fetched[k].settled /\ ~fetched[k].ok
    /\ \E k \in Keys : fetched[k].settled /\ fetched[k].ok

(* ------------------------------------------------------------------ *)
(* Properties of the monitoring loop                                   *)
(* ------------------------------------------------------------------ *)
OpenPositions ==
    {k \in AllKeys : hasPosition(exchangePositions, k)}

CyclesInProgress ==
    {c \in Callers : cycles[c].pc # "idle"}

\* C3: the number of open positions never exceeds maxTotalPositions, also when
\* several opportunities are executed in one cycle
C3_OpenPositionsWithinTotalLimit ==
    Cardinality(OpenPositions) <= risk.maxTotalPositions

\* C4: the number of open positions on one symbol never exceeds maxPositionsPerSymbol
C4_OpenPositionsWithinSymbolLimit ==
    \A symbol \in AllSymbols :
        Cardinality({k \in OpenPositions : k[2] = symbol}) <= risk.maxPositionsPerSymbol

\* C5: at no time are two monitoring cycles in progress
C5_CyclesNeverOverlap ==
    Cardinality(CyclesInProgress) <= 1

\* C6: once stop() has returned and until start() is called again, no monitoring cycle is started
C6_NoCycleAfterStop ==
    [][stoppedSince => cyclesStarted' = cyclesStarted]_vars

(* ------------------------------------------------------------------ *)
(* Properties of the risk limits                                       *)
(* ------------------------------------------------------------------ *)
\* the projected drawdown of a leg: size * leverage * stopLossPercentage / initialBalance
ProjectedDrawdown(trade) ==
    DecDiv(DecMul(DecMul(trade.size, DecInt(trade.leverage)), risk.stopLossPercentage), risk.initialBalance)

\* C11: no order is submitted for a leg whose projected drawdown exceeds maxDrawdown,
\* for the requests the scheduler builds (no limitPrice)
C11_NoOrderBeyondDrawdown ==
    \A c \in Callers :
        exec[c].calls > 0
            => /\ DecLte(ProjectedDrawdown(exec[c].longTrade), risk.maxDrawdown)
               /\ DecLte(ProjectedDrawdown(exec[c].shortTrade), risk.maxDrawdown)

\* the checks of validateTrade, stated on the candidate and the metrics of the call
SizeExceeds(v) ==
    DecGt(v.request.size, risk.maxPositionSize)

LeverageExceeds(v) ==
    v.request.leverage > risk.maxLeverage

SymbolFull(v) ==
    getOrZero(v.metrics.positionsPerSymbol, v.request.symbol) >= risk.maxPositionsPerSymbol

TotalFull(v) ==
    v.metrics.totalPositions >= risk.maxTotalPositions

\* projected drawdown as the specification writes it: size * leverage * stopLossPercentage / initialBalance
DrawdownExceeds(v) ==
    DecGt(ProjectedDrawdown(v.request), risk.maxDrawdown)

\* projected drawdown on the position value: size * currentPrice * leverage * stopLossPercentage / initialBalance
ValueDrawdownExceeds(v) ==
    DecGt(DecDiv(DecMul(DecMul(DecMul(v.request.size, v.request.currentPrice), DecInt(v.request.leverage)),
                        risk.stopLossPercentage),
                 risk.initialBalance),
          risk.maxDrawdown)

\* C12 as stated: validateTrade returns false iff one of the five conditions holds, the
\* projected drawdown being size * leverage * stopLossPercentage / initialBalance
C12_RejectsIffSomeLimitExceeded ==
    validated.called =>
        (validated.result = FALSE
            <=> \/ SizeExceeds(validated)
                \/ LeverageExceeds(validated)
                \/ SymbolFull(validated)
                \/ TotalFull(validated)
                \/ DrawdownExceeds(validated))

\* C12 amended: validateTrade returns false iff one of the five conditions holds, the projected
\* drawdown being size * currentPrice * leverage * stopLossPercentage / initialBalance
C12_RejectsIffSomeLimitExceededOnValue ==
    validated.called =>
        (validated.result = FALSE
            <=> \/ SizeExceeds(validated)
                \/ LeverageExceeds(validated)
                \/ SymbolFull(validated)
                \/ TotalFull(validated)
                \/ ValueDrawdownExceeds(validated))

C12_Witness ==
    /\ validated.called
    /\ validated.result = FALSE
    /\ ~SizeExceeds(validated)
    /\ ~LeverageExceeds(validated)
    /\ ~SymbolFull(validated)
    /\ ~TotalFull(validated)
    /\ ValueDrawdownExceeds(validated)
    /\ validated.metrics.totalPositions > 0

FailingChecks(v) ==
    <<SizeExceeds(v), LeverageExceeds(v), SymbolFull(v), TotalFull(v), ValueDrawdownExceeds(v)>>

CheckNames ==
    <<"size", "leverage", "positionsPerSymbol", "totalPositions", "drawdown">>

\* C13: the reason reported is that of the first failing check in the order size, leverage,
\* positions per symbol, total positions, drawdown
C13_FirstFailingCheckIsReported ==
    validated.called =>
        \A i \in 1..5 :
            (FailingChecks(validated)[i] /\ \A j \in 1..(i - 1) : ~FailingChecks(validated)[j])
                => validated.reason = CheckNames[i]

C13_Witness ==
    /\ validated.called
    /\ validated.reason = "leverage"
    /\ TotalFull(validated)
    /\ ValueDrawdownExceeds(validated)
    /\ ~SymbolFull(validated)

(* ------------------------------------------------------------------ *)
(* Properties of a monitoring cycle                                    *)
(* ------------------------------------------------------------------ *)
\* C14: updateMetrics is called in a cycle before any validateTrade of that cycle
\* (a cycle awaiting its legs has validated both of them)
C14_MetricsUpdatedBeforeValidation ==
    \A c \in Callers :
        cycles[c].pc = "legs" => cycles[c].metricsUpdated

TrackedKeys ==
    DOMAIN positions

\* C15: a position is in the orchestrator's active set only while it is open on its exchange
C15_TrackedOnlyWhileOpen ==
    \A key \in TrackedKeys :
        hasPosition(exchangePositions, <<key[1], key[2]>>)

\* C16: a failed close (false returned, or thrown) sends an error notification, a successful
\* close sends a trade-closed notification
C16_CloseIsNotified ==
    \A c \in Callers :
        /\ cycles[c].closeOutcome \in {"refused", "threw"} => cycles[c].closeNotification = "trade_error"
        /\ cycles[c].closeOutcome = "closed" => cycles[c].closeNotification = "trade_closed"

\* C17: executeArbitrageTrade has not returned while a leg's executeTrade is unsettled
C17_ReturnsAfterBothLegsSettled ==
    \A c \in Callers :
        (exec[c].pc = "returned" /\ exec[c].calls > 0)
            => /\ exec[c].long # "pending"
               /\ exec[c].short # "pending"

\* C18: an opportunity one of whose legs threw produced exactly one error notification,
\* the orchestrator's and the wrapper's counted together
C18_OneErrorNotificationPerFailedPair ==
    \A c \in Callers :
        cycles[c].oppThrew => cycles[c].oppErrors = 1

C18_Witness ==
    \E c \in Callers :
        /\ cycles[c].oppThrew
        /\ cycles[c].pc \in {"legs", "positions"}

\* C19: when both legs succeed the call returns true, both positions are stored under
\* (exchange, symbol, side) and one trade_executed notification is sent
C19_BothLegsSucceeded ==
    \A c \in Callers :
        (exec[c].pc \in {"notifying", "returned"} /\ exec[c].long = "ok" /\ exec[c].short = "ok")
            => LET lk == <<exec[c].longTrade.exchange, exec[c].longTrade.symbol, "long">>
                   sk == <<exec[c].shortTrade.exchange, exec[c].shortTrade.symbol, "short">>
               IN  /\ exec[c].result = "true"
                   /\ lk \in DOMAIN positions
                   /\ sk \in DOMAIN positions
                   /\ positions[lk] = exec[c].longPosition
                   /\ positions[sk] = exec[c].shortPosition
                   /\ positions[lk].exchange = exec[c].longTrade.exchange
                   /\ positions[sk].exchange = exec[c].shortTrade.exchange
                   /\ exec[c].tradeNotifications = 1
                   /\ exec[c].errorNotifications = 0

C19_Witness ==
    \E c \in Callers :
        /\ exec[c].pc = "returned"
        /\ exec[c].long = "ok"
        /\ exec[c].short = "ok"

\* C20: while tradingEnabled is false no cycle calls executeArbitrageTrade, no order is
\* submitted and the tracked position set is unchanged
C20_DetectOnlyNeverTrades ==
    ~tradingEnabled
        => /\ \A c \in Callers : exec[c] = IdleExec
           /\ orphans = <<>>
           /\ exchangePositions = NoExchangePositions
           /\ positions = <<>>

C20_Witness ==
    /\ ~tradingEnabled
    /\ \E c \in Callers : cycles[c].pc = "positions"
    /\ findArbitrageOpportunities(fundingRates, marketPrices, symbols, minFundingDiff, minProfitThreshold) # <<>>

(* ------------------------------------------------------------------ *)
(* Properties of the execution loop of monitor()                       *)
(* ------------------------------------------------------------------ *)
\* the place, in the order monitor() iterates, of the opportunity a cycle is executing
ExecutingAt(c) ==
    Len(cycles[c].order) - Len(cycles[c].queue)

(* C21: within one cycle the opportunity being executed is the next one   *)
(* of the iteration, and no opportunity iterated before it has a strictly  *)
(* smaller expectedProfit.                                                 *)
C21_ExecutedInDescendingProfit ==
    \A c \in Callers :
        cycles[c].pc = "legs" =>
            LET at == ExecutingAt(c)
                order == cycles[c].order
            IN  /\ at \in 1..Len(order)
                /\ exec[c].longTrade = longRequestOf(order[at])
                /\ exec[c].shortTrade = shortRequestOf(order[at])
                /\ \A j \in 1..(at - 1) : DecGte(order[j].expectedProfit, order[at].expectedProfit)

\* the second opportunity executed is one the detector returned first, with the smaller profit
C21_Witness ==
    \E c \in Callers :
        /\ cycles[c].pc = "legs"
        /\ ExecutingAt(c) = 2
        /\ DecGt(cycles[c].order[1].expectedProfit, cycles[c].order[2].expectedProfit)
        /\ findArbitrageOpportunities(fundingRates, marketPrices, symbols,
                                      minFundingDiff, minProfitThreshold)[1] = cycles[c].order[2]

\* the symbols in lexical order
LexicalOrder ==
    <<"BTC-PERP", "ETH-PERP">>

LexicalRank(symbol) ==
    CHOOSE i \in 1..Len(LexicalOrder) : LexicalOrder[i] = symbol

(* C22: opportunities of one cycle with equal expectedProfit are executed  *)
(* in lexical order of their symbols, whatever the order of config.symbols. *)
C22_TiesInLexicalSymbolOrder ==
    \A c \in Callers :
        cycles[c].pc = "legs" =>
            LET at == ExecutingAt(c)
                order == cycles[c].order
            IN  \A j \in 1..(at - 1) :
                    order[j].expectedProfit = order[at].expectedProfit =>
                        LexicalRank(order[j].symbol) <= LexicalRank(order[at].symbol)

C25_StartWhileRunningChangesNothing ==
    [][(startCalls' = startCalls + 1 /\ isRunning) =>
          /\ isRunning'
          /\ UNCHANGED <<monitoringInterval, timers, startNotifying, startRefreshing, stopNotifying,
                         cycles, cyclesStarted, fundingRates, marketPrices, lastUpdate>>
          /\ UNCHANGED execVars]_vars

\* the last start() call found the agent running and returned at once
C25_Witness ==
    /\ lastStart = "ignored"
    /\ isRunning
    /\ startCalls = 2

(* ------------------------------------------------------------------ *)
(* Properties of the metrics and of the position predicates            *)
(* ------------------------------------------------------------------ *)
\* the positions of P with a given symbol
WithSymbol(P, symbol) ==
    {i \in 1..Len(P) : P[i].symbol = symbol}

\* size x entryPrice x leverage summed over the first n positions of P
RECURSIVE ExposureUpTo(_, _)
ExposureUpTo(P, n) ==
    IF n = 0 THEN DecZero
    ELSE DecAdd(ExposureUpTo(P, n - 1), DecMul(DecMul(P[n].size, P[n].entryPrice), DecInt(P[n].leverage)))

Updated ==
    "updated" \in DOMAIN validated

(* C26: after updateMetrics(P) the metrics are those of P alone:          *)
(* totalPositions = |P|, totalExposure = sum of size x entryPrice x         *)
(* leverage over P, and positionsPerSymbol holds the count of every symbol  *)
(* of P and no entry for any other symbol.                                  *)
C26_MetricsReflectOnlyTheInput ==
    Updated =>
        LET P == validated.positions
        IN  /\ metrics.totalPositions = Len(P)
            /\ metrics.totalExposure = ExposureUpTo(P, Len(P))
            /\ \A s \in AllSymbols :
                   IF WithSymbol(P, s) = {}
                      THEN s \notin DOMAIN metrics.positionsPerSymbol
                      ELSE /\ s \in DOMAIN metrics.positionsPerSymbol
                           /\ metrics.positionsPerSymbol[s] = Cardinality(WithSymbol(P, s))

\* an update with two positions of one symbol, made over metrics that counted three of two symbols
C26_Witness ==
    /\ Updated
    /\ Len(validated.positions) = 2
    /\ validated.positions[1].size # validated.positions[2].size
    /\ validated.before.totalPositions = 3
    /\ "ETH-PERP" \in DOMAIN validated.before.positionsPerSymbol
    /\ "ETH-PERP" \notin DOMAIN metrics.positionsPerSymbol

Evaluated ==
    "evaluated" \in DOMAIN validated

\* unrealizedPnl / (size x entryPrice)
PnlRatio(position) ==
    DecDiv(position.unrealizedPnl, DecMul(position.size, position.entryPrice))

(* C27: for a position with size x entryPrice > 0, shouldTakeProfit is    *)
(* true iff unrealizedPnl / (size x entryPrice) >= the configured           *)
(* takeProfitPercentage, and shouldStopLoss is true iff that ratio is       *)
(* <= -(the configured stopLossPercentage).                                 *)
C27_PredicatesUseConfiguredPercentages ==
    (Evaluated /\ DecGt(DecMul(validated.position.size, validated.position.entryPrice), DecZero)) =>
        /\ validated.takeProfit
              <=> DecGte(PnlRatio(validated.position), config.riskManagement.takeProfitPercentage)
        /\ validated.stopLoss
              <=> DecLte(PnlRatio(validated.position), DecNeg(config.riskManagement.stopLossPercentage))

(* C28: a validateTrade call leaves the metrics as they were, and a call  *)
(* repeating the candidate of the call before it, with no updateMetrics in  *)
(* between, returns what that call returned.                                *)
C28_ValidateTradeIsPure ==
    [][(validated'.called /\ validated' # validated) =>
          /\ metrics' = metrics
          /\ validated'.metrics = metrics
          /\ validated'.repeated => validated'.result = validated.result]_vars

\* a candidate rejected twice in a row against metrics that an update has filled
C28_Witness ==
    /\ validated.called
    /\ validated.repeated
    /\ validated.result = FALSE
    /\ validated.reason = "totalPositions"
    /\ metrics.totalPositions = 2

C30_ReturnsWithoutDelivery ==
    (exec[1].pc \in {"legs", "notifying"}) ~> (exec[1].pc = "returned")

(* C31: when config.notifications.enabled is false, the notification      *)
(* service the agent constructs, which the orchestrator shares, posts to   *)
(* no transport.                                                           *)
C31_DisabledNeverPosts ==
    (notify.owner \in {"agent", "screenerAgent"} /\ notify.configured = "false")
        => notify.posts = <<>>

(* C32: when validateTrade rejects a leg, executeArbitrageTrade returns    *)
(* false at once: its promise fulfils, no error notification is sent by it *)
(* or by the catch block of executeArbitrage, and no trade notification.   *)
C32_RejectionIsNotAnError ==
    \A c \in Callers :
        (/\ exec[c].pc # "idle"
         /\ (LegRejected(exec[c].longTrade) \/ LegRejected(exec[c].shortTrade)))
            => /\ exec[c].pc = "returned"
               /\ exec[c].result = "false"
               /\ executeArbitrageTradePromise(exec[c]) = "fulfilled"
               /\ exec[c].errorNotifications = 0
               /\ wrapperNotifications(exec[c]) = 0
               /\ exec[c].tradeNotifications = 0

\* a call returned because the long leg alone was rejected
C32_Witness ==
    /\ exec[1].pc = "returned"
    /\ LegRejected(exec[1].longTrade)
    /\ ~LegRejected(exec[1].shortTrade)
    /\ connectorsFound(exec[1].longTrade, exec[1].shortTrade)

\* the exchanges createConnector builds a connector for
SupportedExchanges ==
    {"binance", "bybit", "okx"}

\* a call the contract requires to fail
MustRaise(call) ==
    \/ toLowerCase(call.exchange) \notin SupportedExchanges
    \/ toLowerCase(call.exchange) = "okx" /\ call.config.passphrase \in {"absent", ""}

(* C33: createConnector raises, and adds no connector, exactly for okx     *)
(* without a passphrase and for a name that is not binance, bybit or okx   *)
(* in any letter case; when a call made by main() raises, no further       *)
(* connector is created and the agent is neither constructed nor started.  *)
C33_BadExchangeStopsBootstrap ==
    LET n == Len(bootstrap.calls)
    IN  /\ bootstrap.raised <=> (n > 0 /\ MustRaise(bootstrap.calls[n]))
        /\ \A i \in 1..n :
              /\ i < n => ~MustRaise(bootstrap.calls[i])
              /\ MustRaise(bootstrap.calls[i]) <=> bootstrap.calls[i].exchange \notin DOMAIN bootstrap.connectors
        /\ bootstrap.raised => bootstrap.agent = "none" /\ bootstrap.pc \in {"called", "exited"}

\* main() exited on an okx entry after it had created a connector for an upper-case name
C33_Witness ==
    /\ bootstrap.pc = "exited"
    /\ bootstrap.raised
    /\ Len(bootstrap.calls) = 2
    /\ bootstrap.calls[1].exchange \in {"Binance", "BYBIT"}
    /\ toLowerCase(bootstrap.calls[2].exchange) = "okx"
    /\ bootstrap.agent = "none"

\* the legs of a call for which executeTrade has been called
LegsSubmitted(e) ==
    {leg \in {"long", "short"} : e[leg] # "none"}

(* C34: nothing is retried. In a refresh fetchFundingRate and               *)
(* fetchMarketData have been called at most once for every (exchange,       *)
(* symbol), also after a failure; in an executeArbitrageTrade call          *)
(* executeTrade has been called once for each leg submitted, also after a   *)
(* leg has thrown.                                                          *)
C34_NoRetries ==
    /\ \A k \in AllKeys : fetched[k].fetches <= 1
    /\ \A c \in Callers : exec[c].calls = Cardinality(LegsSubmitted(exec[c]))

\* a refresh has returned after a pair's fetch failed, and a call has returned after a leg threw
C34_Witness ==
    /\ fetchPc = "returned"
    /\ \E k \in Keys : fetched[k].settled /\ ~fetched[k].ok /\ fetched[k].fetches = 1
    /\ exec[1].pc = "returned"
    /\ exec[1].long = "failed"
    /\ exec[1].calls = 2

\* the step in which the fetches of pair k settle with a failure
FetchFails(k) ==
    /\ k \in fetchPending
    /\ k \notin fetchPending'
    /\ ~fetched'[k].ok

\* a funding rate is stored for a key exactly when a price is
RateIffPrice ==
    \A k \in AllKeys : fundingRates[k].present <=> marketPrices[k].present

(* C35: a step in which the fetch of the funding rate or of the price of a  *)
(* pair fails changes neither the stored funding rate nor the stored price  *)
(* of that key; before and after every step a key has a stored funding rate *)
(* exactly when it has a stored price; no step removes a stored snapshot.   *)
C35_FailedFetchKeepsSnapshot ==
    [][/\ \A k \in AllKeys :
             /\ FetchFails(k) => fundingRates'[k] = fundingRates[k] /\ marketPrices'[k] = marketPrices[k]
             /\ fundingRates[k].present => fundingRates'[k].present
             /\ marketPrices[k].present => marketPrices'[k].present
       /\ RateIffPrice
       /\ RateIffPrice']_vars

\* the fetch of a pair failed in a refresh later than the one that stored its snapshot
C35_Witness ==
    \E k \in Keys :
        /\ fetched[k].settled
        /\ ~fetched[k].ok
        /\ fundingRates[k].present
        /\ marketPrices[k].present
        /\ fundingRates[k].timestamp < now

\* invocation c of monitor() ends in a catch block in this step
ErrorCaught(c) ==
    cycles'[c].error /\ cycles'[c] # cycles[c]

ScaledSize(opportunity) ==
    DecAdd(config.basePositionSize,
           DecMul(config.basePositionSize, DecMul(opportunity.expectedProfit, config.maxSizeMultiplier)))

(* C37: while the legs of an opportunity are being executed, the long and  *)
(* the short request carry the opportunity's symbol, the same size and the  *)
(* same leverage, the long request goes to longExchange and the short one   *)
(* to shortExchange, and the size is the smaller of the scaled size and     *)
(* maxPositionSize.                                                         *)
C37_LegsAreSymmetric ==
    \A c \in Callers :
        cycles[c].pc = "legs" =>
            LET o == cycles[c].order[ExecutingAt(c)]
                long == exec[c].longTrade
                short == exec[c].shortTrade
            IN  /\ long.symbol = o.symbol /\ short.symbol = o.symbol
                /\ long.side = "long" /\ short.side = "short"
                /\ long.size = short.size
                /\ long.leverage = short.leverage
                /\ long.exchange = o.longExchange
                /\ short.exchange = o.shortExchange
                /\ long.size = (IF DecLt(ScaledSize(o), config.maxPositionSize)
                                   THEN ScaledSize(o) ELSE config.maxPositionSize)
                /\ DecLte(long.size, config.maxPositionSize)

\* the legs of an opportunity whose scaled size is above maxPositionSize are being executed
C37_Witness ==
    \E c \in Callers :
        /\ cycles[c].pc = "legs"
        /\ exec[c].long = "pending"
        /\ exec[c].short = "pending"
        /\ DecGt(ScaledSize(cycles[c].order[ExecutingAt(c)]), config.maxPositionSize)
        /\ exec[c].longTrade.size = config.maxPositionSize

\* the position an invocation's closePosition call is for
Closing(c) ==
    Head(cycles[c].toManage)

(* C38: while an invocation of managePositions awaits a closePosition call, *)
(* a snapshot is stored for the position's (exchange, symbol), its          *)
(* unrealized PnL ratio is at or above the take-profit threshold or at or   *)
(* below the negated stop-loss threshold, and closePosition has not been    *)
(* called for the same position earlier in the invocation.                  *)
C38_ClosesOnlyOnTakeProfitOrStopLoss ==
    \A c \in Callers :
        cycles[c].pc = "closing" =>
            LET p == Closing(c)
                k == <<p.exchange, p.symbol>>
                calls == cycles[c].closeCalls
            IN  /\ fundingRates[k].present /\ marketPrices[k].present
                /\ \/ DecGte(PnlRatio(p), risk.takeProfitPercentage)
                   \/ DecLte(PnlRatio(p), DecNeg(risk.stopLossPercentage))
                /\ calls # <<>>
                /\ calls[Len(calls)] = k
                /\ \A i, j \in 1..Len(calls) : calls[i] = calls[j] => i = j

\* a take-profit close is awaited in an invocation that skipped a position without a snapshot
C38_Witness ==
    \E c \in Callers :
        /\ cycles[c].pc = "closing"
        /\ shouldTakeProfit(Closing(c))
        /\ \E k \in Keys : hasPosition(exchangePositions, k) /\ ~marketPrices[k].present

\* the step in which getAllPositions throws in invocation c
PositionsFetchFails(c) ==
    cycles[c].pc = "positions" /\ cycles'[c].error

(* C39: the step in which a getPosition call of an invocation fails leaves  *)
(* the risk metrics and the exchanges' positions unchanged, calls           *)
(* closePosition for no position, sends one error notification and ends     *)
(* the invocation without rejecting its promise.                            *)
C39_FailedRefetchSkipsManagement ==
    [][\A c \in Callers :
          PositionsFetchFails(c) =>
              /\ metrics' = metrics
              /\ exchangePositions' = exchangePositions
              /\ cycles'[c].pc = "idle"
              /\ cycles'[c].toManage = <<>>
              /\ cycles'[c].closeCalls = <<>>
              /\ ~cycles'[c].metricsUpdated
              /\ cycles'[c].systemErrors = 1
              /\ ~cycles'[c].rejected]_vars

\* the re-fetch failed while an exchange holds a position with a stored snapshot,
\* and the metrics still count no position
C39_Witness ==
    \E c \in Callers :
        /\ cycles[c].error
        /\ cycles[c].systemErrors = 1
        /\ metrics.totalPositions = 0
        /\ \E k \in Keys : hasPosition(exchangePositions, k) /\ marketPrices[k].present

\* a list in non-increasing rawSpread order
NonIncreasingSpread(list) ==
    \A i, j \in 1..Len(list) : i < j => list[i].rawSpread >= list[j].rawSpread

\* monitor() of the screener-driven agent takes its opportunities in this step
TakesTopOpportunities ==
    screenerCycle.pc = "idle" /\ screenerCycle'.pc # "idle"

(* C40: in an invocation of the screener-driven monitor() every opportunity *)
(* handed to executeArbitrage is synced with rawSpread >= the threshold and *)
(* is one of those considered; those considered are at most                 *)
(* maxOpportunities, in non-increasing rawSpread order, each from the       *)
(* stored list, none of the stored ones left out having a larger rawSpread; *)
(* the step that takes them leaves the stored list as it was.               *)
C40_ScreenerCycleExecutesOnlyValid ==
    [][/\ TakesTopOpportunities =>
             /\ screenerOpportunities' = screenerOpportunities
             /\ \A i \in 1..Len(screenerCycle'.considered) :
                   \E j \in 1..Len(screenerOpportunities) :
                       screenerOpportunities[j] = screenerCycle'.considered[i]
             /\ Len(screenerCycle'.considered) < Len(screenerOpportunities) =>
                   /\ Len(screenerCycle'.considered) = screenerConfig.maxOpportunities
                   /\ Cardinality({j \in 1..Len(screenerOpportunities) :
                          \A i \in 1..Len(screenerCycle'.considered) :
                              screenerOpportunities[j].rawSpread > screenerCycle'.considered[i].rawSpread}) = 0
       /\ Len(screenerCycle'.considered) <= screenerConfig.maxOpportunities
       /\ NonIncreasingSpread(screenerCycle'.considered)
       /\ NonIncreasingSpread(screenerCycle'.executed)
       /\ \A i \in 1..Len(screenerCycle'.executed) :
             LET o == screenerCycle'.executed[i]
             IN  /\ o.synced
                 /\ o.rawSpread >= screenerConfig.minSpreadThreshold
                 /\ \E j \in 1..Len(screenerCycle'.considered) : screenerCycle'.considered[j] = o]_vars

\* one of the two considered opportunities was executed, the other was not synced, a third
\* stored one was not considered, and the stored list is not in sorted order
C40_Witness ==
    /\ screenerCycle.pc = "managing"
    /\ Len(screenerCycle.considered) = 2
    /\ Len(screenerCycle.executed) = 1
    /\ \E i \in 1..2 : ~screenerCycle.considered[i].synced
    /\ Len(screenerOpportunities) = 3
    /\ ~NonIncreasingSpread(screenerOpportunities)

====
